---- MODULE Spec2Model ----
(***************************************************************************)
(* Transaction assembly, signing and submission pipeline of the NEAR      *)
(* command-line tool.                                                      *)
(*                                                                         *)
(* The module holds state machines over disjoint groups of variables:      *)
(*   SpecSubmit  - Transaction::process, the broadcast-with-retry loop     *)
(*   SpecLedger  - SignLedger::from and SignLedger::process, or else       *)
(*                 SignTransactionWithLedger::from and ::process           *)
(*   SpecChain   - the action-chain nodes' process functions               *)
(*   SpecText    - the text conversions (Display, FromStr, to_cli_args)    *)
(*                                                                         *)
(* Text is a sequence of one-character strings.  Unsigned integers wider   *)
(* than the checker's integers (u64, u128) are sequences of decimal        *)
(* digits, most significant first, without leading zeros (zero is <<0>>).  *)
(***************************************************************************)
EXTENDS Integers, Sequences, FiniteSets, TLC

VARIABLES
    \* ---- send_signed_transaction: Transaction::process
    transaction,               \* self.transaction, the encoded signed transaction
    submit_pc,                 \* position in Transaction::process
    broadcast_calls,           \* argument of every broadcast_tx_commit call so far
    transaction_info_results,  \* every answer of broadcast_tx_commit so far
    transaction_info,          \* value the loop broke with (None before)
    submit_result,             \* what process returned (None while running)
    \* ---- sign_with_ledger: SignLedger::from, SignLedger::process
    item,                      \* the CliSignLedger handed to SignLedger::from
    connection_config,         \* Option<ConnectionConfig>
    prepopulated_unsigned_transaction,
    sign_ledger,               \* the SignLedger built by from (None before)
    ledger_pc,                 \* position in from / process
    ledger_locals,             \* locals of from / process that live across awaits
    ops,                       \* external operations so far, in order
    ledger_result,             \* what from / process returned (None while running)
    \* ---- sign_transaction_with_ledger_subcommand: SignTransactionWithLedger
    util_item,                 \* the CliSignTransactionWithLedger handed to from
    util_self,                 \* the SignTransactionWithLedger built by from (None before)
    util_pc,                   \* position in from / process
    util_ops,                  \* external operations so far, in order
    util_result,               \* what process returned (None while running)
    \* ---- delete_command: DeleteAction::from, DeleteAction::process
    delete_item,               \* the CliDeleteAction handed to DeleteAction::from
    delete_tx,                 \* the prepopulated transaction handed to process
    delete_self,               \* the DeleteAction built by from (None before)
    delete_pc,                 \* position in from / process
    delete_calls,              \* prompts and calls into OperationMode so far, in order
    delete_result,             \* how from / process ended (None while running)
    \* ---- login: From<Server> for CliCustomServer, Server::process
    login_server,              \* the Server value (its connection_config)
    login_command,             \* which operation runs on it
    login_pc,                  \* position in that operation
    login_locals,              \* key_pair_properties and account_id of Server::process
    login_calls,               \* prompts, network calls and keychain writes so far, in order
    login_keychain,            \* the access keys saved to the keychain
    login_result,              \* how the operation ended (None while running)
    \* ---- GenerateKeypair::process
    keygen_self,               \* the GenerateKeypair node (its permission)
    keygen_config,             \* network_connection_config
    keygen_tx,                 \* prepopulated_unsigned_transaction
    keygen_pc,                 \* position in process
    keygen_key,                \* key_pair_properties (None before it is generated)
    keygen_keychain,           \* the access keys saved to the keychain
    keygen_calls,              \* keychain writes and calls of the permission's process
    keygen_result,             \* how process ended (None while running)
    \* ---- action chain
    chain,                     \* the nodes of the chain, in order
    chain_next,                \* index of the node whose process runs next
    chain_initial,             \* the transaction handed to the first node
    chain_tx,                  \* the transaction handed to the next node
    chain_reads,               \* result of every std::fs::read so far
    chain_pc,
    chain_result,              \* what the chain returned (None while running)
    \* ---- text conversions
    text_case,                 \* the input the conversion is applied to
    text_out                   \* the conversion's results (None before)

submitVars == <<transaction, submit_pc, broadcast_calls, transaction_info_results,
                transaction_info, submit_result>>
ledgerVars == <<item, connection_config, prepopulated_unsigned_transaction, sign_ledger,
                ledger_pc, ledger_locals, ops, ledger_result>>
utilVars == <<util_item, util_self, util_pc, util_ops, util_result>>
deleteVars == <<delete_item, delete_tx, delete_self, delete_pc, delete_calls,
                delete_result>>
loginVars == <<login_server, login_command, login_pc, login_locals, login_calls,
               login_keychain, login_result>>
keygenVars == <<keygen_self, keygen_config, keygen_tx, keygen_pc, keygen_key,
                keygen_keychain, keygen_calls, keygen_result>>
chainVars == <<chain, chain_next, chain_initial, chain_tx, chain_reads, chain_pc,
               chain_result>>
textVars == <<text_case, text_out>>
vars == <<submitVars, ledgerVars, utilVars, deleteVars, loginVars, keygenVars, chainVars,
          textVars>>
notSubmitVars == <<ledgerVars, utilVars, deleteVars, chainVars, textVars, loginVars, keygenVars>>
notLedgerVars == <<submitVars, utilVars, deleteVars, chainVars, textVars, loginVars, keygenVars>>
notUtilVars == <<submitVars, ledgerVars, deleteVars, chainVars, textVars, loginVars, keygenVars>>
notDeleteVars == <<submitVars, ledgerVars, utilVars, chainVars, textVars, loginVars, keygenVars>>
notChainVars == <<submitVars, ledgerVars, utilVars, deleteVars, textVars, loginVars, keygenVars>>
notLoginVars == <<submitVars, ledgerVars, utilVars, deleteVars, chainVars, textVars, keygenVars>>
notKeygenVars == <<submitVars, ledgerVars, utilVars, deleteVars, loginVars, chainVars,
                   textVars>>
notTextVars == <<submitVars, ledgerVars, utilVars, deleteVars, chainVars, loginVars, keygenVars>>

None == [tag |-> "None"]
Some(v) == [tag |-> "Some", value |-> v]
IsSome(o) == o.tag = "Some"
Ok(v) == [tag |-> "Ok", value |-> v]
Err(e) == [tag |-> "Err", error |-> e]
IsOk(r) == r.tag = "Ok"
IsErr(r) == r.tag = "Err"

(***************************************************************************)
(* Text helpers (std::str)                                                 *)
(***************************************************************************)
\* s[from..] as a sequence
Drop(s, n) == SubSeq(s, n + 1, Len(s))
Take(s, n) == SubSeq(s, 1, n)

\* str::starts_with
StartsWith(s, p) == Len(p) <= Len(s) /\ Take(s, Len(p)) = p

\* str::contains(&str)
Contains(s, p) == \E i \in 0..(Len(s) - Len(p)) : SubSeq(s, i + 1, i + Len(p)) = p

(***************************************************************************)
(* send_signed_transaction: Transaction::process                           *)
(***************************************************************************)
MaxBroadcasts == 4

T_Timeout == <<"T", "i", "m", "e", "o", "u", "t">>
T_TimeoutError == <<"T", "x", " ", "T", "i", "m", "e", "o", "u", "t", "!">>
T_timeout_lower == <<"t", "i", "m", "e", "o", "u", "t">>
T_Invalid == <<"I", "n", "v", "a", "l", "i", "d">>
T_Time == <<"T", "i", "m", "e">>

\* RpcError.data : Option<serde_json::Value>
JsonString(s) == [json |-> "String", text |-> s]
JsonNumber == [json |-> "Number", text |-> <<>>]
JsonObject == [json |-> "Object", text |-> <<>>]
RpcErrorData ==
    {None} \cup
    {Some(JsonString(s)) : s \in {T_Timeout, T_TimeoutError, T_timeout_lower,
                                  T_Invalid, T_Time, <<>>}} \cup
    {Some(JsonNumber), Some(JsonObject)}

BroadcastResponses == {"outcome_1", "outcome_2"}
SignedTransactionStrings == {"base64_tx_A", "base64_tx_B"}

\* a retry rule that retries on any error that carries data
IsTimeoutError_AnyData(data) == IsSome(data)

\* `if let Some(serde_json::Value::String(data)) = &err.data { if data.contains("Timeout")`
IsTimeoutError(data) ==
    /\ IsSome(data)
    /\ data.value.json = "String"
    /\ Contains(data.value.text, T_Timeout)

\* a loop that moves self.transaction into the first call instead of cloning it
BroadcastArgument_Moved(tx) == IF broadcast_calls = <<>> THEN tx ELSE ""

\* the argument of broadcast_tx_commit: self.transaction.clone()
BroadcastArgument(tx) == tx

InitSubmit ==
    /\ transaction \in SignedTransactionStrings
    /\ submit_pc = "loop"
    /\ broadcast_calls = <<>>
    /\ transaction_info_results = <<>>
    /\ transaction_info = None
    /\ submit_result = None

IdleSubmit ==
    /\ transaction = "base64_tx_A"
    /\ submit_pc = "idle"
    /\ broadcast_calls = <<>>
    /\ transaction_info_results = <<>>
    /\ transaction_info = None
    /\ submit_result = None

\* json_rcp_client.broadcast_tx_commit(self.transaction.clone()) is issued
BroadcastTxCommit ==
    /\ submit_pc = "loop"
    /\ Len(broadcast_calls) < MaxBroadcasts
    /\ broadcast_calls' = Append(broadcast_calls, BroadcastArgument(transaction))
    /\ submit_pc' = "await"
    /\ UNCHANGED <<transaction, transaction_info_results, transaction_info, submit_result>>
    /\ UNCHANGED notSubmitVars

\* .await yields Ok(response): break response; print status; Ok(())
BroadcastOk ==
    /\ submit_pc = "await"
    /\ \E response \in BroadcastResponses :
        /\ transaction_info_results' = Append(transaction_info_results, Ok(response))
        /\ transaction_info' = Some(response)
    /\ submit_result' = Some(Ok("unit"))
    /\ submit_pc' = "returned"
    /\ UNCHANGED <<transaction, broadcast_calls>>
    /\ UNCHANGED notSubmitVars

\* an Err arm that continues the loop on every error
BroadcastErr_RetriesAll ==
    /\ submit_pc = "await"
    /\ \E data \in RpcErrorData :
        transaction_info_results' = Append(transaction_info_results, Err(data))
    /\ submit_pc' = "loop"
    /\ UNCHANGED <<transaction, broadcast_calls, transaction_info, submit_result>>
    /\ UNCHANGED notSubmitVars

\* .await yields Err(err): continue on a timeout, return Err otherwise
BroadcastErr ==
    /\ submit_pc = "await"
    /\ \E data \in RpcErrorData :
        /\ transaction_info_results' = Append(transaction_info_results, Err(data))
        /\ IF IsTimeoutError(data)
           THEN /\ submit_pc' = "loop"
                /\ submit_result' = submit_result
           ELSE /\ submit_pc' = "returned"
                /\ submit_result' = Some(Err(data))
    /\ UNCHANGED <<transaction, broadcast_calls, transaction_info>>
    /\ UNCHANGED notSubmitVars

NextSubmit == BroadcastTxCommit \/ BroadcastOk \/ BroadcastErr

\* The loop has no counter: it goes on after MaxBroadcasts calls.  The two logs keep
\* the first MaxBroadcasts calls and timeouts only, so that the loop itself stays
\* unbounded over finitely many states.

\* broadcast_tx_commit is issued once more (the call is no longer logged)
BroadcastTxCommit_Unlogged ==
    /\ submit_pc = "loop"
    /\ Len(broadcast_calls) = MaxBroadcasts
    /\ submit_pc' = "await"
    /\ UNCHANGED <<transaction, broadcast_calls, transaction_info_results,
                   transaction_info, submit_result>>
    /\ UNCHANGED notSubmitVars

\* .await yields Err(err): a non-timeout error, or a timeout the log still keeps
BroadcastErr_Logged ==
    /\ BroadcastErr
    /\ \/ submit_pc' = "returned"
       \/ Len(transaction_info_results) < MaxBroadcasts

\* .await yields a timeout once more (no longer logged): continue
BroadcastErr_Unlogged ==
    /\ submit_pc = "await"
    /\ Len(transaction_info_results) >= MaxBroadcasts
    /\ \E data \in RpcErrorData : IsTimeoutError(data)
    /\ submit_pc' = "loop"
    /\ UNCHANGED <<transaction, broadcast_calls, transaction_info_results,
                   transaction_info, submit_result>>
    /\ UNCHANGED notSubmitVars

NextSubmitLive ==
    \/ BroadcastTxCommit
    \/ BroadcastTxCommit_Unlogged
    \/ BroadcastOk
    \/ BroadcastErr_Logged
    \/ BroadcastErr_Unlogged

\* the endpoint answers a call with a success or with an error that is no timeout
NonTimeoutResponse ==
    \/ BroadcastOk
    \/ BroadcastErr /\ submit_pc' = "returned"

(***************************************************************************)
(* Unsigned integers as decimal digit sequences                            *)
(***************************************************************************)
\* drop leading zeros; zero is <<0>>
DecStrip(d) ==
    IF \A i \in 1..Len(d) : d[i] = 0 THEN <<0>>
    ELSE LET first == CHOOSE i \in 1..Len(d) :
                          d[i] # 0 /\ \A j \in 1..(i - 1) : d[j] = 0
         IN SubSeq(d, first, Len(d))

\* d + 1 on a digit sequence that may carry out of its first digit
DecIncRaw(d) ==
    LET n == Len(d)
        carried(i) == \A j \in (i + 1)..n : d[j] = 9
        digits == [i \in 1..n |-> IF carried(i) THEN (d[i] + 1) % 10 ELSE d[i]]
    IN IF carried(0) THEN <<1>> \o digits ELSE digits

\* the mathematical successor
DecInc(d) == DecIncRaw(d)

\* a <= b on digit sequences of one length
DecLexLeq(a, b) ==
    \/ a = b
    \/ \E i \in 1..Len(a) : a[i] < b[i] /\ \A j \in 1..(i - 1) : a[j] = b[j]

\* a <= b on stripped digit sequences
DecLeq(a, b) ==
    IF Len(a) # Len(b) THEN Len(a) < Len(b) ELSE DecLexLeq(a, b)

\* u64::MAX = 18446744073709551615
U64_MAX == <<1, 8, 4, 4, 6, 7, 4, 4, 0, 7, 3, 7, 0, 9, 5, 5, 1, 6, 1, 5>>
U64_MAX_MINUS_1 == <<1, 8, 4, 4, 6, 7, 4, 4, 0, 7, 3, 7, 0, 9, 5, 5, 1, 6, 1, 4>>

\* the outcomes of `x + 1` on a u64: the sum, or on overflow a panic (overflow
\* checks on, the debug profile) or the wrapped value 0 (overflow checks off, the
\* release profile)
U64AddOne(x) ==
    IF x = U64_MAX
    THEN {[kind |-> "panic", value |-> <<0>>], [kind |-> "value", value |-> <<0>>]}
    ELSE {[kind |-> "value", value |-> DecInc(x)]}

\* u128::MAX = 340282366920938463463374607431768211455
U128_MAX == <<3, 4, 0, 2, 8, 2, 3, 6, 6, 9, 2, 0, 9, 3, 8, 4, 6, 3, 4, 6, 3, 3, 7, 4, 6, 0,
              7, 4, 3, 1, 7, 6, 8, 2, 1, 1, 4, 5, 5>>

Zeros(k) == [i \in 1..k |-> 0]

\* d * 10^k
DecMulPow10(d, k) == IF d = <<0>> THEN <<0>> ELSE d \o Zeros(k)

\* d / 10^k, rounded down
DecDivPow10(d, k) == IF Len(d) <= k THEN <<0>> ELSE Take(d, Len(d) - k)

\* d % 10^k
DecModPow10(d, k) == IF Len(d) <= k THEN d ELSE DecStrip(Drop(d, Len(d) - k))

\* a + b + carry on digit sequences of one length, least significant digit last
DecAddRaw(a, b, carry) ==
    LET n == Len(a)
        \* the carry into digit i: a later digit pair overflows (or the carry comes in)
        \* and every pair between passes it on
        carry_in(i) ==
            \/ \E j \in (i + 1)..n :
                   /\ a[j] + b[j] >= 10
                   /\ \A k \in (i + 1)..(j - 1) : a[k] + b[k] = 9
            \/ carry = 1 /\ \A k \in (i + 1)..n : a[k] + b[k] = 9
        digits == [i \in 1..n |-> (a[i] + b[i] + (IF carry_in(i) THEN 1 ELSE 0)) % 10]
    IN IF carry_in(0) THEN <<1>> \o digits ELSE digits

\* a + b
DecAdd(a, b) ==
    LET n == IF Len(a) > Len(b) THEN Len(a) ELSE Len(b)
    IN DecStrip(DecAddRaw(Zeros(n - Len(a)) \o a, Zeros(n - Len(b)) \o b, 0))

\* a multiplication that does not look at the range
CheckedMulPow10_Unchecked(d, k) == Some(DecMulPow10(d, k))

\* u128::checked_mul(10u128.pow(k))
CheckedMulPow10(d, k) ==
    LET product == DecMulPow10(d, k)
    IN IF DecLeq(product, U128_MAX) THEN Some(product) ELSE None

\* u128::checked_add
CheckedAdd(a, b) ==
    LET sum == DecAdd(a, b)
    IN IF DecLeq(sum, U128_MAX) THEN Some(sum) ELSE None

(***************************************************************************)
(* Characters and strings                                                  *)
(***************************************************************************)
DigitChars == <<"0", "1", "2", "3", "4", "5", "6", "7", "8", "9">>
LowerCase == <<"a", "b", "c", "d", "e", "f", "g", "h", "i", "j", "k", "l", "m", "n", "o", "p", "q", "r", "s", "t", "u", "v", "w", "x", "y", "z">>
UpperCase == <<"A", "B", "C", "D", "E", "F", "G", "H", "I", "J", "K", "L", "M", "N", "O", "P", "Q", "R", "S", "T", "U", "V", "W", "X", "Y", "Z">>

IsDigitChar(c) == \E i \in 1..10 : DigitChars[i] = c
CharDigit(c) == (CHOOSE i \in 1..10 : DigitChars[i] = c) - 1

\* char::is_alphabetic, on the letters of the model's alphabet
IsAlphabetic(c) == \E i \in 1..26 : LowerCase[i] = c \/ UpperCase[i] = c

\* char::is_whitespace
IsWhitespace(c) == c = " "

\* char::to_uppercase
ToUpperChar(c) ==
    IF \E i \in 1..26 : LowerCase[i] = c
    THEN UpperCase[CHOOSE i \in 1..26 : LowerCase[i] = c]
    ELSE c

\* a conversion that leaves the case as it is
ToUppercase_Identity(s) == s

\* str::to_uppercase
ToUppercase(s) == [i \in 1..Len(s) |-> ToUpperChar(s[i])]

\* the characters of s up to the last one that does not satisfy Matches
TrimEndBy(s, Matches(_)) ==
    IF \A i \in 1..Len(s) : Matches(s[i]) THEN <<>>
    ELSE LET last == CHOOSE i \in 1..Len(s) :
                         ~Matches(s[i]) /\ \A j \in (i + 1)..Len(s) : Matches(s[j])
         IN SubSeq(s, 1, last)

\* the characters of s from the first one that does not satisfy Matches
TrimStartBy(s, Matches(_)) ==
    IF \A i \in 1..Len(s) : Matches(s[i]) THEN <<>>
    ELSE LET first == CHOOSE i \in 1..Len(s) :
                          ~Matches(s[i]) /\ \A j \in 1..(i - 1) : Matches(s[j])
         IN SubSeq(s, first, Len(s))

TrimStart(s) == TrimStartBy(s, IsWhitespace)

TrimEnd(s) == TrimEndBy(s, IsWhitespace)

\* str::trim
Trim(s) == TrimEnd(TrimStart(s))

\* str::trim_end_matches(char::is_alphabetic)
TrimEndAlphabetic(s) == TrimEndBy(s, IsAlphabetic)

RECURSIVE TrimStartMatches(_, _)
\* str::trim_start_matches(&str): the prefix is removed as often as it repeats; the
\* empty pattern removes nothing
TrimStartMatches(s, pat) ==
    IF pat # <<>> /\ StartsWith(s, pat) THEN TrimStartMatches(Drop(s, Len(pat)), pat)
    ELSE s

RECURSIVE SplitChar(_, _)
\* str::split(char).collect::<Vec<&str>>()
SplitChar(s, sep) ==
    IF \E i \in 1..Len(s) : s[i] = sep
    THEN LET i == CHOOSE i \in 1..Len(s) : s[i] = sep /\ \A j \in 1..(i - 1) : s[j] # sep
         IN <<Take(s, i - 1)>> \o SplitChar(Drop(s, i), sep)
    ELSE <<s>>

\* u128 / u64 Display: the decimal digits
DecToString(d) == [i \in 1..Len(d) |-> DigitChars[d[i] + 1]]

\* str::parse::<uN>() with uN::MAX = max: an optional "+" and then one digit at least
ParseUnsigned(s, max) ==
    LET digits == IF s # <<>> /\ s[1] = "+" THEN Tail(s) ELSE s
    IN IF s = <<>> THEN Err("cannot parse integer from empty string")
       ELSE IF digits = <<>> \/ \E i \in 1..Len(digits) : ~IsDigitChar(digits[i])
       THEN Err("invalid digit found in string")
       ELSE LET value == DecStrip([i \in 1..Len(digits) |-> CharDigit(digits[i])])
            IN IF DecLeq(value, max) THEN Ok(value)
               ELSE Err("number too large to fit in target type")

(***************************************************************************)
(* common.rs: NearBalance                                                  *)
(***************************************************************************)
\* const ONE_NEAR: u128 = 10u128.pow(24)
ONE_NEAR_DIGITS == 24
\* the fractional digits Display prints: ONE_NEAR / 1_000 is the smallest unit shown
DISPLAY_FRACTION_DIGITS == 3

S_NEAR == <<"N", "E", "A", "R">>
S_N == <<"N">>
S_YN == <<"Y", "N">>
S_YNEAR == <<"Y", "N", "E", "A", "R">>
S_YOCTONEAR == <<"Y", "O", "C", "T", "O", "N", "E", "A", "R">>
S_YOCTON == <<"Y", "O", "C", "T", "O", "N">>
S_0_NEAR == <<"0", " ", "N", "E", "A", "R">>
S_less_than == <<"l", "e", "s", "s", " ", "t", "h", "a", "n", " ", "0", ".", "0", "0", "1", " ", "N", "E", "A", "R", " ", "(">>
S_yoctoNEAR_close == <<" ", "y", "o", "c", "t", "o", "N", "E", "A", "R", ")">>
S_space_NEAR == <<" ", "N", "E", "A", "R">>

\* `{:0>3}`: pad on the left with "0" up to the width
PadLeftZeros(s, width) ==
    IF Len(s) >= width THEN s ELSE [i \in 1..(width - Len(s)) |-> "0"] \o s

\* impl Display for NearBalance
NearBalanceDisplay(yoctonear_amount) ==
    IF yoctonear_amount = <<0>> THEN S_0_NEAR
    ELSE IF Len(yoctonear_amount) <= ONE_NEAR_DIGITS - DISPLAY_FRACTION_DIGITS
    THEN S_less_than \o DecToString(yoctonear_amount) \o S_yoctoNEAR_close
    ELSE DecToString(DecDivPow10(yoctonear_amount, ONE_NEAR_DIGITS))
         \o <<".">>
         \o PadLeftZeros(
                DecToString(DecModPow10(
                    DecDivPow10(yoctonear_amount, ONE_NEAR_DIGITS - DISPLAY_FRACTION_DIGITS),
                    DISPLAY_FRACTION_DIGITS)),
                DISPLAY_FRACTION_DIGITS)
         \o S_space_NEAR

\* `.parse::<u128>().map_err(|err| format!("Near Balance: {}", err))`
NearBalanceParse(s) ==
    LET parsed == ParseUnsigned(s, U128_MAX)
    IN IF IsErr(parsed) THEN Err("Near Balance: " \o parsed.error) ELSE parsed

\* the "N" | "NEAR" arm of NearBalance::from_str
NearBalanceFromNear(num) ==
    LET res_split == SplitChar(num, ".")
        overflow == Err("Near Balance: underflow or overflow happens")
    IN IF Len(res_split) = 2
       THEN LET int == NearBalanceParse(res_split[1])
            IN IF IsErr(int) THEN int
               ELSE LET num_int_yocto == CheckedMulPow10(int.value, ONE_NEAR_DIGITS)
                        len_fract == Len(res_split[2])
                    IN IF ~IsSome(num_int_yocto) THEN overflow
                       ELSE IF len_fract > ONE_NEAR_DIGITS
                       THEN Err("Near Balance: too large fractional part of a number")
                       ELSE LET fract == NearBalanceParse(res_split[2])
                            IN IF IsErr(fract) THEN fract
                               ELSE LET num_fract_yocto ==
                                            CheckedMulPow10(fract.value,
                                                            ONE_NEAR_DIGITS - len_fract)
                                    IN IF ~IsSome(num_fract_yocto) THEN overflow
                                       ELSE LET sum == CheckedAdd(num_int_yocto.value,
                                                                  num_fract_yocto.value)
                                            IN IF IsSome(sum) THEN Ok(sum.value)
                                               ELSE overflow
       ELSE IF Len(res_split) = 1
       THEN LET int == NearBalanceParse(res_split[1])
            IN IF IsErr(int) THEN int
               ELSE LET product == CheckedMulPow10(int.value, ONE_NEAR_DIGITS)
                    IN IF IsSome(product) THEN Ok(product.value) ELSE overflow
       ELSE Err("Near Balance: incorrect number entered")

\* impl FromStr for NearBalance
NearBalanceFromStr(s) ==
    LET num == Trim(TrimEndAlphabetic(Trim(s)))
        currency == ToUppercase(Trim(TrimStartMatches(Trim(s), num)))
    IN IF currency \in {S_N, S_NEAR} THEN NearBalanceFromNear(num)
       ELSE IF currency \in {S_YN, S_YNEAR, S_YOCTONEAR, S_YOCTON}
       THEN NearBalanceParse(num)
       ELSE Err("Near Balance: incorrect currency value entered")

(***************************************************************************)
(* common.rs: NearGas                                                      *)
(***************************************************************************)
\* 10u64.pow(12): the gas of one TeraGas
TERA_GAS_DIGITS == 12
\* `/ 1000`: the TeraGas amount of the GIGAGAS | GGAS arm, brought to GigaGas
GIGA_DIVISOR_DIGITS == 3

S_T == <<"T">>
S_TGAS == <<"T", "G", "A", "S">>
S_TERAGAS == <<"T", "E", "R", "A", "G", "A", "S">>
S_GIGAGAS == <<"G", "I", "G", "A", "G", "A", "S">>
S_GGAS == <<"G", "G", "A", "S">>

\* u64::checked_mul(10u64.pow(k))
CheckedMulPow10U64(d, k) ==
    LET product == DecMulPow10(d, k)
    IN IF DecLeq(product, U64_MAX) THEN Some(product) ELSE None

\* an addition that does not look at the range
CheckedAddU64_Unchecked(a, b) == Some(DecAdd(a, b))

\* u64::checked_add
CheckedAddU64(a, b) ==
    LET sum == DecAdd(a, b)
    IN IF DecLeq(sum, U64_MAX) THEN Some(sum) ELSE None

\* `.parse::<u64>().map_err(|err| format!("Near Gas: {}", err))`
NearGasParse(s) ==
    LET parsed == ParseUnsigned(s, U64_MAX)
    IN IF IsErr(parsed) THEN Err("Near Gas: " \o parsed.error) ELSE parsed

\* NearGas::into_tera_gas
IntoTeraGas(num) ==
    LET res_split == SplitChar(num, ".")
        overflow == Err("Near Gas: underflow or overflow happens")
    IN IF Len(res_split) = 2
       THEN LET int == NearGasParse(res_split[1])
            IN IF IsErr(int) THEN int
               ELSE LET num_int_gas == CheckedMulPow10U64(int.value, TERA_GAS_DIGITS)
                        len_fract == Len(res_split[2])
                    IN IF ~IsSome(num_int_gas) THEN overflow
                       ELSE IF len_fract > TERA_GAS_DIGITS
                       THEN Err("Near Gas: too large fractional part of a number")
                       ELSE LET fract == NearGasParse(res_split[2])
                            IN IF IsErr(fract) THEN fract
                               ELSE LET num_fract_gas ==
                                            CheckedMulPow10U64(fract.value,
                                                               TERA_GAS_DIGITS - len_fract)
                                    IN IF ~IsSome(num_fract_gas) THEN overflow
                                       ELSE LET sum == CheckedAddU64(num_int_gas.value,
                                                                     num_fract_gas.value)
                                            IN IF IsSome(sum) THEN Ok(sum.value)
                                               ELSE overflow
       ELSE IF Len(res_split) = 1
       THEN LET int == NearGasParse(res_split[1])
            IN IF IsErr(int) THEN int
               ELSE LET product == CheckedMulPow10U64(int.value, TERA_GAS_DIGITS)
                    IN IF IsSome(product) THEN Ok(product.value) ELSE overflow
       ELSE Err("Near Gas: incorrect number entered")

\* impl FromStr for NearGas
NearGasFromStr(s) ==
    LET num == Trim(TrimEndAlphabetic(Trim(s)))
        currency == ToUppercase(Trim(TrimStartMatches(Trim(s), num)))
        tera_gas == IntoTeraGas(num)
    IN IF currency \in {S_T, S_TGAS, S_TERAGAS} THEN tera_gas
       ELSE IF currency \in {S_GIGAGAS, S_GGAS}
       THEN (IF IsErr(tera_gas) THEN tera_gas
             ELSE Ok(DecDivPow10(tera_gas.value, GIGA_DIVISOR_DIGITS)))
       ELSE Err("Near Gas: incorrect currency value entered")

(***************************************************************************)
(* sign_with_ledger: SignLedger::from, SignLedger::process                 *)
(***************************************************************************)
MaxActions == 2

\* near_primitives::transaction::Action
DeployContract(code) == [kind |-> "DeployContract", code |-> code]
FunctionCallPermission(allowance, receiver_id, method_names) ==
    [kind |-> "FunctionCall", allowance |-> allowance, receiver_id |-> receiver_id,
     method_names |-> method_names]
AccessKey(nonce, permission) == [nonce |-> nonce, permission |-> permission]
AddKey(public_key, access_key) ==
    [kind |-> "AddKey", public_key |-> public_key, access_key |-> access_key]

\* the actions a prepopulated transaction may already hold
A_Deploy == DeployContract("wasm_1")
A_AddKey == AddKey("ed25519:new", AccessKey(<<0>>, FunctionCallPermission(None, "bob.near", <<>>)))

AccountIds == {"alice.near", "bob.near"}
HdPaths == {"44'/397'/0'/0'/1'", "44'/397'/0'/0'/2'"}
DevicePublicKeys == {"ed25519:ledgerA", "ed25519:ledgerB"}
PlaceholderPublicKey == "ed25519:empty"
BlockHashes == {"hash_P", "hash_Q"}
DefaultBlockHash == "hash_default"      \* CryptoHash::default()
Nonces == {<<0>>, <<5>>, U64_MAX_MINUS_1, U64_MAX}
Submits == {"Send", "Display"}          \* super::Submit
RECURSIVE SeqsUpTo(_, _)
\* all sequences over S of length at most n
SeqsUpTo(S, n) ==
    IF n = 0 THEN {<<>>}
    ELSE LET shorter == SeqsUpTo(S, n - 1)
         IN shorter \cup {Append(q, x) : q \in shorter, x \in S}

OptionOf(S) == {None} \cup {Some(v) : v \in S}

\* near_primitives::transaction::Transaction values before signing
PrepopulatedTransactions ==
    [signer_id : {"alice.near"}, public_key : {PlaceholderPublicKey},
     nonce : {<<0>>, <<7>>}, receiver_id : AccountIds,
     block_hash : {DefaultBlockHash},
     actions : SeqsUpTo({A_Deploy, A_AddKey}, MaxActions)]

\* Transaction::try_to_vec: the fields in declaration order
TryToVec(tx) ==
    <<tx.signer_id, tx.public_key, tx.nonce, tx.receiver_id, tx.block_hash, tx.actions>>

\* Option::unwrap_or_default
UnwrapOrDefault(o, default) == IF IsSome(o) THEN o.value ELSE default

\* one entry of the log of external operations
Op(name, phase, data) == [op |-> name, phase |-> phase, data |-> data]

NoLocals ==
    [seed_phrase_hd_path |-> None, signer_public_key |-> None,
     unsigned_transaction |-> None, query_response |-> None,
     signed_transaction |-> None, serialize_to_base64 |-> None]

InitLedger ==
    /\ item \in [seed_phrase_hd_path : OptionOf({"44'/397'/0'/0'/1'"}),
                 nonce : OptionOf({<<5>>, U64_MAX}),
                 block_hash : OptionOf({"hash_P"}),
                 submit : OptionOf(Submits)]
    /\ connection_config \in OptionOf({"Testnet"})
    /\ prepopulated_unsigned_transaction \in PrepopulatedTransactions
    /\ sign_ledger = None
    /\ ledger_pc = "from"
    /\ ledger_locals = NoLocals
    /\ ops = <<>>
    /\ ledger_result = None

\* SignLedger::from, up to the get_public_key request: resolve the HD path
\* (prompting when the command line gave none) and ask the device for the key
FromRequestPublicKey ==
    /\ ledger_pc = "from"
    /\ \E prompted \in HdPaths :
        LET seed_phrase_hd_path ==
                IF IsSome(item.seed_phrase_hd_path)
                THEN item.seed_phrase_hd_path.value ELSE prompted
            prompts ==
                IF IsSome(item.seed_phrase_hd_path) THEN <<>>
                ELSE <<Op("prompt", "seed_phrase_hd_path", prompted)>>
        IN /\ ledger_locals' =
                  [ledger_locals EXCEPT !.seed_phrase_hd_path = Some(seed_phrase_hd_path)]
           /\ ops' = ops \o prompts
                         \o <<Op("get_public_key", "request", seed_phrase_hd_path)>>
    /\ ledger_pc' = "get_public_key"
    /\ UNCHANGED <<item, connection_config, prepopulated_unsigned_transaction,
                   sign_ledger, ledger_result>>
    /\ UNCHANGED notLedgerVars

\* a SignLedger::from that keeps an omitted nonce and block hash as None in both modes
FromBuild_KeepsNone(cfg, cli, hd_path, public_key, prompted_nonce, prompted_block_hash) ==
    IF IsSome(cfg)
    THEN [seed_phrase_hd_path |-> hd_path, signer_public_key |-> public_key,
          nonce |-> None, block_hash |-> None, submit |-> cli.submit]
    ELSE [seed_phrase_hd_path |-> hd_path, signer_public_key |-> public_key,
          nonce |-> cli.nonce, block_hash |-> cli.block_hash, submit |-> cli.submit]

\* the fields of the SignLedger built once the device answered
\* (`match connection_config` of SignLedger::from)
FromBuild(cfg, cli, hd_path, public_key, prompted_nonce, prompted_block_hash) ==
    IF IsSome(cfg)
    THEN [seed_phrase_hd_path |-> hd_path, signer_public_key |-> public_key,
          nonce |-> None, block_hash |-> None, submit |-> cli.submit]
    ELSE [seed_phrase_hd_path |-> hd_path, signer_public_key |-> public_key,
          nonce |-> Some(IF IsSome(cli.nonce) THEN cli.nonce.value ELSE prompted_nonce),
          block_hash |-> Some(IF IsSome(cli.block_hash) THEN cli.block_hash.value
                              ELSE prompted_block_hash),
          submit |-> cli.submit]

\* the prompts SignLedger::from issues after the device answered
FromPrompts(cfg, cli, prompted_nonce, prompted_block_hash) ==
    IF IsSome(cfg) THEN <<>>
    ELSE (IF IsSome(cli.nonce) THEN <<>>
          ELSE <<Op("prompt", "nonce", prompted_nonce)>>)
         \o (IF IsSome(cli.block_hash) THEN <<>>
             ELSE <<Op("prompt", "block_hash", prompted_block_hash)>>)

\* get_public_key answered Ok: the rest of SignLedger::from
FromPublicKeyOk ==
    /\ ledger_pc = "get_public_key"
    /\ \E public_key \in DevicePublicKeys, prompted_nonce \in {<<0>>, <<5>>},
          prompted_block_hash \in {"hash_Q"} :
        /\ sign_ledger' = Some(FromBuild(connection_config, item,
                                         ledger_locals.seed_phrase_hd_path.value,
                                         public_key, prompted_nonce, prompted_block_hash))
        /\ ops' = ops \o <<Op("get_public_key", "response", Ok(public_key))>>
                      \o FromPrompts(connection_config, item, prompted_nonce,
                                     prompted_block_hash)
        /\ ledger_locals' = [ledger_locals EXCEPT !.signer_public_key = Some(public_key)]
    /\ ledger_pc' = "built"
    /\ UNCHANGED <<item, connection_config, prepopulated_unsigned_transaction, ledger_result>>
    /\ UNCHANGED notLedgerVars

\* get_public_key answered Err: `.map_err(..)?`
FromPublicKeyErr ==
    /\ ledger_pc = "get_public_key"
    /\ ops' = Append(ops, Op("get_public_key", "response", Err("near_ledger_error")))
    /\ ledger_result' = Some(Err("get PublicKey from Ledger device"))
    /\ ledger_pc' = "returned"
    /\ UNCHANGED <<item, connection_config, prepopulated_unsigned_transaction, sign_ledger,
                   ledger_locals>>
    /\ UNCHANGED notLedgerVars

\* a transaction built from the three fields alone, the rest left at its default
WithSigningFields_FromDefault(prepopulated, public_key, nonce, block_hash) ==
    [prepopulated EXCEPT !.public_key = public_key, !.nonce = nonce,
                         !.block_hash = block_hash, !.actions = <<>>]

\* `Transaction { public_key, nonce, block_hash, ..prepopulated_unsigned_transaction }`
WithSigningFields(prepopulated, public_key, nonce, block_hash) ==
    [prepopulated EXCEPT !.public_key = public_key, !.nonce = nonce,
                         !.block_hash = block_hash]

\* near_ledger::sign_transaction(unsigned_transaction.try_to_vec(), seed_phrase_hd_path)
SignRequest(unsigned_transaction, hd_path) ==
    Op("sign_transaction", "request",
       [payload |-> TryToVec(unsigned_transaction), seed_phrase_hd_path |-> hd_path])

\* a None arm that looks the access key up before signing
ProcessOffline_WithQuery ==
    /\ ledger_pc = "built"
    /\ connection_config = None
    /\ ops' = Append(ops, Op("view_access_key", "request",
                             [account_id |-> prepopulated_unsigned_transaction.signer_id,
                              public_key |-> sign_ledger.value.signer_public_key]))
    /\ ledger_pc' = "view_access_key"
    /\ UNCHANGED <<item, connection_config, prepopulated_unsigned_transaction, sign_ledger,
                   ledger_locals, ledger_result>>
    /\ UNCHANGED notLedgerVars

\* SignLedger::process, None arm, up to the sign_transaction request
ProcessOffline ==
    /\ ledger_pc = "built"
    /\ connection_config = None
    /\ LET self == sign_ledger.value
           nonce == UnwrapOrDefault(self.nonce, <<0>>)
           block_hash == UnwrapOrDefault(self.block_hash, DefaultBlockHash)
           unsigned_transaction ==
               WithSigningFields(prepopulated_unsigned_transaction,
                                 self.signer_public_key, nonce, block_hash)
       IN /\ ledger_locals' =
                 [ledger_locals EXCEPT !.unsigned_transaction = Some(unsigned_transaction)]
          /\ ops' = Append(ops, SignRequest(unsigned_transaction, self.seed_phrase_hd_path))
    /\ ledger_pc' = "sign_transaction"
    /\ UNCHANGED <<item, connection_config, prepopulated_unsigned_transaction, sign_ledger,
                   ledger_result>>
    /\ UNCHANGED notLedgerVars

\* a query for the key the prepopulated transaction carries
ViewAccessKeyRequest_PrepopulatedKey(prepopulated, public_key) ==
    Op("view_access_key", "request",
       [account_id |-> prepopulated.signer_id, public_key |-> prepopulated.public_key])

\* the ViewAccessKey query request of the Some arm
ViewAccessKeyRequest(prepopulated, public_key) ==
    Op("view_access_key", "request",
       [account_id |-> prepopulated.signer_id, public_key |-> public_key])

\* SignLedger::process, Some arm, up to the query
ProcessNetworkQuery ==
    /\ ledger_pc = "built"
    /\ IsSome(connection_config)
    /\ ops' = Append(ops, ViewAccessKeyRequest(prepopulated_unsigned_transaction,
                                               sign_ledger.value.signer_public_key))
    /\ ledger_pc' = "view_access_key"
    /\ UNCHANGED <<item, connection_config, prepopulated_unsigned_transaction, sign_ledger,
                   ledger_locals, ledger_result>>
    /\ UNCHANGED notLedgerVars

\* the query answered Err: `.map_err(..)?`
QueryErr ==
    /\ ledger_pc = "view_access_key"
    /\ ops' = Append(ops, Op("view_access_key", "response", Err("rpc_error")))
    /\ ledger_result' = Some(Err("Failed to fetch public key information for nonce"))
    /\ ledger_pc' = "returned"
    /\ UNCHANGED <<item, connection_config, prepopulated_unsigned_transaction, sign_ledger,
                   ledger_locals>>
    /\ UNCHANGED notLedgerVars

\* a Some arm that signs with the default nonce when the answer is no access key
QueryNotAccessKey_Proceeds ==
    /\ ledger_pc = "view_access_key"
    /\ \E block_hash \in BlockHashes :
        LET response == [kind |-> "ViewAccount", nonce |-> <<0>>, block_hash |-> block_hash]
            unsigned_transaction ==
                [prepopulated_unsigned_transaction EXCEPT
                    !.public_key = sign_ledger.value.signer_public_key,
                    !.nonce = <<1>>, !.block_hash = block_hash]
        IN /\ ops' = ops \o <<Op("view_access_key", "response", Ok(response)),
                              Op("sign_transaction", "request",
                                 [payload |-> TryToVec(unsigned_transaction),
                                  seed_phrase_hd_path |->
                                      sign_ledger.value.seed_phrase_hd_path])>>
           /\ ledger_locals' =
                  [ledger_locals EXCEPT !.query_response = Some(response),
                                        !.unsigned_transaction = Some(unsigned_transaction)]
    /\ ledger_pc' = "sign_transaction"
    /\ UNCHANGED <<item, connection_config, prepopulated_unsigned_transaction, sign_ledger,
                   ledger_result>>
    /\ UNCHANGED notLedgerVars

\* the query answered with a kind other than AccessKey: `return Err("Error current_nonce")`
QueryNotAccessKey ==
    /\ ledger_pc = "view_access_key"
    /\ \E block_hash \in BlockHashes :
        LET response == [kind |-> "ViewAccount", nonce |-> <<0>>, block_hash |-> block_hash]
        IN /\ ops' = Append(ops, Op("view_access_key", "response", Ok(response)))
           /\ ledger_locals' = [ledger_locals EXCEPT !.query_response = Some(response)]
    /\ ledger_result' = Some(Err("Error current_nonce"))
    /\ ledger_pc' = "returned"
    /\ UNCHANGED <<item, connection_config, prepopulated_unsigned_transaction, sign_ledger>>
    /\ UNCHANGED notLedgerVars

\* the nonce of the transaction to sign: `current_nonce + 1`
NextNonce(current_nonce) == U64AddOne(current_nonce)

\* the query answered with an access key: build the transaction and ask the device
\* to sign it
QueryAccessKey ==
    /\ ledger_pc = "view_access_key"
    /\ \E current_nonce \in Nonces, block_hash \in BlockHashes :
        LET response == [kind |-> "AccessKey", nonce |-> current_nonce,
                         block_hash |-> block_hash]
            self == sign_ledger.value
        IN \E sum \in NextNonce(current_nonce) :
            IF sum.kind = "panic"
            THEN /\ ops' = Append(ops, Op("view_access_key", "response", Ok(response)))
                 /\ ledger_locals' = [ledger_locals EXCEPT !.query_response = Some(response)]
                 /\ ledger_result' = Some([tag |-> "Panic",
                                           error |-> "attempt to add with overflow"])
                 /\ ledger_pc' = "returned"
            ELSE LET unsigned_transaction ==
                         WithSigningFields(prepopulated_unsigned_transaction,
                                           self.signer_public_key, sum.value,
                                           response.block_hash)
                 IN /\ ops' = ops \o <<Op("view_access_key", "response", Ok(response)),
                                       SignRequest(unsigned_transaction,
                                                   self.seed_phrase_hd_path)>>
                    /\ ledger_locals' =
                           [ledger_locals EXCEPT
                               !.query_response = Some(response),
                               !.unsigned_transaction = Some(unsigned_transaction)]
                    /\ ledger_result' = ledger_result
                    /\ ledger_pc' = "sign_transaction"
    /\ UNCHANGED <<item, connection_config, prepopulated_unsigned_transaction, sign_ledger>>
    /\ UNCHANGED notLedgerVars

\* a signed transaction whose transaction had its nonce reset after the signing
NewSignedTransaction_ResetNonce(signature, unsigned_transaction) ==
    [signature |-> signature, transaction |-> [unsigned_transaction EXCEPT !.nonce = <<0>>]]

\* SignedTransaction::new(signature, unsigned_transaction)
NewSignedTransaction(signature, unsigned_transaction) ==
    [signature |-> signature, transaction |-> unsigned_transaction]

\* to_base64(signed_transaction.try_to_vec())
SerializeToBase64(signed_transaction) ==
    [base64 |-> <<TryToVec(signed_transaction.transaction), signed_transaction.signature>>]

\* a submit step that exports in either mode
SubmitCall_AlwaysOffline(cfg, submit, signed_transaction, serialize_to_base64) ==
    Op("process_offline", submit, [serialize_to_base64 |-> serialize_to_base64])

\* the submit step that ends a branch of process: process_offline in the None arm,
\* process_online in the Some arm
SubmitCall(cfg, submit, signed_transaction, serialize_to_base64) ==
    IF cfg = None
    THEN Op("process_offline", submit, [serialize_to_base64 |-> serialize_to_base64])
    ELSE Op("process_online", submit,
            [network_connection_config |-> cfg.value,
             signed_transaction |-> signed_transaction,
             serialize_to_base64 |-> serialize_to_base64])

\* sign_transaction answered Ok: build and encode the signed transaction, resolve the
\* submit choice (prompting when none was given) and hand over to Submit
SignOk ==
    /\ ledger_pc = "sign_transaction"
    /\ \E chosen \in Submits :
        LET request == ops[Len(ops)].data
            signature == [signed |-> request.payload, with |-> request.seed_phrase_hd_path]
            unsigned_transaction == ledger_locals.unsigned_transaction.value
            signed_transaction == NewSignedTransaction(signature, unsigned_transaction)
            serialize_to_base64 == SerializeToBase64(signed_transaction)
            given == sign_ledger.value.submit
            submit == IF IsSome(given) THEN given.value ELSE chosen
            prompts == IF IsSome(given) THEN <<>> ELSE <<Op("prompt", "submit", chosen)>>
        IN /\ ops' = ops \o <<Op("sign_transaction", "response", Ok(signature))>>
                         \o prompts
                         \o <<SubmitCall(connection_config, submit, signed_transaction,
                                         serialize_to_base64)>>
           /\ ledger_locals' =
                  [ledger_locals EXCEPT !.signed_transaction = Some(signed_transaction),
                                        !.serialize_to_base64 = Some(serialize_to_base64)]
    /\ ledger_pc' = "submit"
    /\ UNCHANGED <<item, connection_config, prepopulated_unsigned_transaction, sign_ledger,
                   ledger_result>>
    /\ UNCHANGED notLedgerVars

\* sign_transaction answered Err: `return Err(..)`
SignErr ==
    /\ ledger_pc = "sign_transaction"
    /\ ops' = Append(ops, Op("sign_transaction", "response", Err("near_ledger_error")))
    /\ ledger_result' = Some(Err("Error occurred while signing the transaction"))
    /\ ledger_pc' = "returned"
    /\ UNCHANGED <<item, connection_config, prepopulated_unsigned_transaction, sign_ledger,
                   ledger_locals>>
    /\ UNCHANGED notLedgerVars

\* Submit::process_offline / process_online returned; process returns its result
SubmitReturned ==
    /\ ledger_pc = "submit"
    /\ \E result \in {Ok(None), Ok(Some("final_execution_outcome")), Err("submit")} :
        ledger_result' = Some(result)
    /\ ledger_pc' = "returned"
    /\ UNCHANGED <<item, connection_config, prepopulated_unsigned_transaction, sign_ledger,
                   ledger_locals, ops>>
    /\ UNCHANGED notLedgerVars

NextLedger ==
    \/ FromRequestPublicKey
    \/ FromPublicKeyOk
    \/ FromPublicKeyErr
    \/ ProcessOffline
    \/ ProcessNetworkQuery
    \/ QueryErr
    \/ QueryNotAccessKey
    \/ QueryAccessKey
    \/ SignOk
    \/ SignErr
    \/ SubmitReturned

(***************************************************************************)
(* sign_transaction_with_ledger_subcommand: SignTransactionWithLedger      *)
(***************************************************************************)
InitUtil ==
    /\ util_item \in [seed_phrase_hd_path : OptionOf({"44'/397'/0'/0'/1'"}),
                      unsigned_transaction : OptionOf(PrepopulatedTransactions)]
    /\ util_self = None
    /\ util_pc = "from"
    /\ util_ops = <<>>
    /\ util_result = None

\* From<CliSignTransactionWithLedger>: a field the command line gave is taken, a
\* missing one is prompted for
UtilFrom ==
    /\ util_pc = "from"
    /\ \E prompted_hd_path \in HdPaths, prompted_transaction \in PrepopulatedTransactions :
        LET hd_given == IsSome(util_item.seed_phrase_hd_path)
            tx_given == IsSome(util_item.unsigned_transaction)
            seed_phrase_hd_path ==
                IF hd_given THEN util_item.seed_phrase_hd_path.value ELSE prompted_hd_path
            unsigned_transaction ==
                IF tx_given THEN util_item.unsigned_transaction.value
                ELSE prompted_transaction
        IN /\ util_self' = Some([seed_phrase_hd_path |-> seed_phrase_hd_path,
                                 unsigned_transaction |-> unsigned_transaction])
           /\ util_ops' =
                  (IF hd_given THEN <<>>
                   ELSE <<Op("prompt", "seed_phrase_hd_path", prompted_hd_path)>>)
                  \o (IF tx_given THEN <<>>
                      ELSE <<Op("prompt", "unsigned_transaction", prompted_transaction)>>)
    /\ util_pc' = "built"
    /\ UNCHANGED <<util_item, util_result>>
    /\ UNCHANGED notUtilVars

\* SignTransactionWithLedger::process up to the sign_transaction request
UtilSignRequest ==
    /\ util_pc = "built"
    /\ util_ops' = Append(util_ops, SignRequest(util_self.value.unsigned_transaction,
                                                util_self.value.seed_phrase_hd_path))
    /\ util_pc' = "sign_transaction"
    /\ UNCHANGED <<util_item, util_self, util_result>>
    /\ UNCHANGED notUtilVars

\* a process that asks the device again after an Err
UtilSignErr_Retry ==
    /\ util_pc = "sign_transaction"
    /\ Len(util_ops) < 6
    /\ util_ops' = util_ops
                   \o <<Op("sign_transaction", "response", Err("near_ledger_error")),
                        SignRequest(util_self.value.unsigned_transaction,
                                    util_self.value.seed_phrase_hd_path)>>
    /\ UNCHANGED <<util_item, util_self, util_pc, util_result>>
    /\ UNCHANGED notUtilVars

\* sign_transaction answered Err: `return Err(..)`
UtilSignErr ==
    /\ util_pc = "sign_transaction"
    /\ util_ops' = Append(util_ops,
                          Op("sign_transaction", "response", Err("near_ledger_error")))
    /\ util_result' = Some(Err("Error occurred while signing the transaction"))
    /\ util_pc' = "returned"
    /\ UNCHANGED <<util_item, util_self>>
    /\ UNCHANGED notUtilVars

\* sign_transaction answered Ok: build the signed transaction, print it encoded and
\* return Ok(())
UtilSignOk ==
    /\ util_pc = "sign_transaction"
    /\ LET request == util_ops[Len(util_ops)].data
           signature == [signed |-> request.payload, with |-> request.seed_phrase_hd_path]
           signed_transaction ==
               NewSignedTransaction(signature, util_self.value.unsigned_transaction)
       IN util_ops' = util_ops
                      \o <<Op("sign_transaction", "response", Ok(signature)),
                           Op("println", "serialize_to_base64",
                              SerializeToBase64(signed_transaction))>>
    /\ util_result' = Some(Ok(None))
    /\ util_pc' = "returned"
    /\ UNCHANGED <<util_item, util_self>>
    /\ UNCHANGED notUtilVars

NextUtil ==
    \/ UtilFrom
    \/ UtilSignRequest
    \/ UtilSignOk
    \/ UtilSignErr

(***************************************************************************)
(* delete_command: DeleteAction::from, Action::from, DeleteAction::process *)
(***************************************************************************)
\* CliAction: the variant and the CliOperationMode it carries
CliActionKinds == {"AccessKey", "Account"}
CliOperationModes == {"default", "network", "offline"}
CliActions == [kind : CliActionKinds, cli_operation_mode : CliOperationModes]

\* what OperationMode::from may answer for a CliOperationMode
OperationModeFromResults(cli_operation_mode) ==
    {Ok([mode |-> cli_operation_mode]), Err("operation_mode_from_error")}

InitDelete ==
    /\ delete_item \in [action : OptionOf(CliActions)]
    /\ delete_tx \in PrepopulatedTransactions
    /\ delete_self = None
    /\ delete_pc = "from"
    /\ delete_calls = <<>>
    /\ delete_result = None

\* DeleteAction::from up to the call of OperationMode::from inside Action::from: the
\* action the command line gave, or the one chosen at the prompt of choose_action
\* (with a default CliOperationMode)
DeleteActionFrom ==
    /\ delete_pc = "from"
    /\ \E selected \in CliActionKinds :
        LET given == IsSome(delete_item.action)
            cli_action == IF given THEN delete_item.action.value
                          ELSE [kind |-> selected, cli_operation_mode |-> "default"]
        IN delete_calls' =
               (IF given THEN <<>> ELSE <<Op("prompt", "action", selected)>>)
               \o <<Op("OperationMode::from", "request", cli_action)>>
    /\ delete_pc' = "operation_mode_from"
    /\ UNCHANGED <<delete_item, delete_tx, delete_self, delete_result>>
    /\ UNCHANGED notDeleteVars

\* Action::from: `Ok(Action::X(OperationMode::from(cli_operation_mode).unwrap()))`;
\* unwrap panics on Err
ActionFromOutcome(cli_action, operation_mode) ==
    IF IsOk(operation_mode)
    THEN Ok([kind |-> cli_action.kind, operation_mode |-> operation_mode.value])
    ELSE [tag |-> "Panic", error |-> operation_mode.error]

\* OperationMode::from answered: the rest of Action::from and of DeleteAction::from
\* (`Action::from(cli_action)?`, `Ok(Self { action })`)
DeleteActionFromReturn ==
    /\ delete_pc = "operation_mode_from"
    /\ LET cli_action == delete_calls[Len(delete_calls)].data
       IN \E operation_mode \in OperationModeFromResults(cli_action.cli_operation_mode) :
            LET action == ActionFromOutcome(cli_action, operation_mode)
            IN /\ delete_calls' = Append(delete_calls,
                                         Op("OperationMode::from", "response", operation_mode))
               /\ IF IsOk(action)
                  THEN /\ delete_self' = Some([action |-> action.value])
                       /\ delete_result' = delete_result
                       /\ delete_pc' = "built"
                  ELSE /\ delete_self' = delete_self
                       /\ delete_result' = Some(action)
                       /\ delete_pc' = "returned"
    /\ UNCHANGED <<delete_item, delete_tx>>
    /\ UNCHANGED notDeleteVars

\* DeleteAction::process: self.action.process(prepopulated_unsigned_transaction)
DeleteActionProcess ==
    /\ delete_pc = "built"
    /\ \E result \in {Ok(None), Err("operation_mode_process_error")} :
        /\ delete_calls' = delete_calls
               \o <<Op("OperationMode::process", "request",
                       [operation_mode |-> delete_self.value.action.operation_mode,
                        prepopulated_unsigned_transaction |-> delete_tx]),
                    Op("OperationMode::process", "response", result)>>
        /\ delete_result' = Some(result)
    /\ delete_pc' = "returned"
    /\ UNCHANGED <<delete_item, delete_tx, delete_self>>
    /\ UNCHANGED notDeleteVars

NextDelete ==
    \/ DeleteActionFrom
    \/ DeleteActionFromReturn
    \/ DeleteActionProcess

(***************************************************************************)
(* login: From<Server> for CliCustomServer, Server::process                *)
(***************************************************************************)
\* common::ConnectionConfig
ConnectionConfigs ==
    {[kind |-> "Testnet"], [kind |-> "Mainnet"], [kind |-> "Betanet"]} \cup
    {[kind |-> "Custom", url |-> u] : u \in {"https://rpc.example/", "http://localhost:3030/", "mailto:rpc"}}

\* ConnectionConfig::rpc_url
RpcUrl(self) ==
    IF self.kind = "Custom" THEN self.url
    ELSE self.kind \o "_API_SERVER_URL"

\* ConnectionConfig::wallet_url
WalletUrl(self) ==
    IF self.kind = "Custom" THEN self.url
    ELSE self.kind \o "_WALLET_URL"

\* Url::join("login/"): an error on a URL that cannot be a base
UrlJoinLogin(url) ==
    IF url = "mailto:rpc" THEN Err("cannot be a base") ELSE Ok(url \o "login/")

\* the key pairs common::generate_keypair may produce
KeyPairs ==
    {[public_key_str |-> "ed25519:gen_1", secret_keypair_str |-> "ed25519:secret_1"],
     [public_key_str |-> "ed25519:gen_2", secret_keypair_str |-> "ed25519:secret_2"]}

LoginAccountIds == {"alice.near", "bob.near", "carol.testnet"}

NoLoginLocals == [key_pair_properties |-> None, account_id |-> None]

InitLogin ==
    /\ login_server \in [connection_config : ConnectionConfigs]
    /\ login_command \in {"into_cli", "process"}
    /\ login_pc = "start"
    /\ login_locals = NoLoginLocals
    /\ login_calls = <<>>
    /\ login_keychain = {}
    /\ login_result = None

\* From<Server> for CliCustomServer, up to the status call inside
\* AvailableRpcServerUrl::from_str (Url::parse of a Url's own text succeeds)
ServerIntoCliStatusRequest ==
    /\ login_command = "into_cli"
    /\ login_pc = "start"
    /\ login_calls' = Append(login_calls,
                             Op("status", "request", RpcUrl(login_server.connection_config)))
    /\ login_pc' = "status"
    /\ UNCHANGED <<login_server, login_command, login_locals, login_keychain, login_result>>
    /\ UNCHANGED notLoginVars

\* the value From<Server> for CliCustomServer ends with:
\* `AvailableRpcServerUrl::from_str(..).unwrap().inner`
ServerIntoCliOutcome(from_str) ==
    IF IsOk(from_str) THEN Ok([url |-> Some(from_str.value.inner)])
    ELSE [tag |-> "Panic", error |-> from_str.error]

\* the status call answered: from_str returns, the conversion unwraps it
ServerIntoCliStatusAnswer ==
    /\ login_command = "into_cli"
    /\ login_pc = "status"
    /\ \E status \in {Ok("status_response"), Err("rpc_error")} :
        LET from_str == IF IsOk(status)
                        THEN Ok([inner |-> RpcUrl(login_server.connection_config)])
                        ELSE Err("AvailableRpcServerUrl")
        IN /\ login_calls' = Append(login_calls, Op("status", "response", status))
           /\ login_result' = Some(ServerIntoCliOutcome(from_str))
    /\ login_pc' = "returned"
    /\ UNCHANGED <<login_server, login_command, login_locals, login_keychain>>
    /\ UNCHANGED notLoginVars

\* Server::process up to the view-access-key query of verify_account_id:
\* generate_keypair()?, wallet_url().join("login/")?, the browser is opened,
\* the account id is prompted for, the query is sent
ServerProcessStart ==
    /\ login_command = "process"
    /\ login_pc = "start"
    /\ \E generated \in {Ok(k) : k \in KeyPairs} \cup {Err("generate_keypair")},
          account_id \in LoginAccountIds :
        LET url == UrlJoinLogin(WalletUrl(login_server.connection_config))
        IN IF IsErr(generated) \/ IsErr(url)
           THEN /\ login_result' = Some(IF IsErr(generated) THEN generated ELSE url)
                /\ login_pc' = "returned"
                /\ UNCHANGED <<login_locals, login_calls>>
           ELSE /\ login_locals' = [key_pair_properties |-> Some(generated.value),
                                    account_id |-> Some(account_id)]
                /\ login_calls' = login_calls \o
                       <<Op("open", "request", url.value),
                         Op("prompt", "account_id", account_id),
                         Op("view_access_key", "request",
                            [rpc_url |-> RpcUrl(login_server.connection_config),
                             account_id |-> account_id,
                             public_key |-> generated.value.public_key_str])>>
                /\ login_pc' = "view_access_key"
                /\ UNCHANGED login_result
    /\ UNCHANGED <<login_server, login_command, login_keychain>>
    /\ UNCHANGED notLoginVars

\* the access key common::save_access_key_to_keychain is asked to write
KeychainEntry ==
    [connection_config |-> Some(login_server.connection_config),
     key_pair_properties |-> login_locals.key_pair_properties.value,
     account_id |-> login_locals.account_id.value]

\* a failed query after which the key is written all the same
ServerProcessQueryErr_Saves ==
    /\ login_command = "process"
    /\ login_pc = "view_access_key"
    /\ login_calls' = login_calls \o
           <<Op("view_access_key", "response", Err("rpc_error")),
             Op("save_access_key_to_keychain", "request", KeychainEntry),
             Op("save_access_key_to_keychain", "response", Ok(None))>>
    /\ login_keychain' = login_keychain \cup {KeychainEntry}
    /\ login_result' = Some(Err("Failed account ID"))
    /\ login_pc' = "returned"
    /\ UNCHANGED <<login_server, login_command, login_locals>>
    /\ UNCHANGED notLoginVars

\* the query answered Err: verify_account_id and get_account_from_cli map_err and `?`
ServerProcessQueryErr ==
    /\ login_command = "process"
    /\ login_pc = "view_access_key"
    /\ login_calls' = Append(login_calls, Op("view_access_key", "response", Err("rpc_error")))
    /\ login_result' = Some(Err("Failed account ID"))
    /\ login_pc' = "returned"
    /\ UNCHANGED <<login_server, login_command, login_locals, login_keychain>>
    /\ UNCHANGED notLoginVars

\* the query answered Ok: save_access_key_to_keychain(..).await.map_err(..)?; Ok(())
ServerProcessQueryOk ==
    /\ login_command = "process"
    /\ login_pc = "view_access_key"
    /\ \E saved \in {Ok(None), Err("io")} :
        /\ login_calls' = login_calls \o
               <<Op("view_access_key", "response", Ok("access_key_view")),
                 Op("save_access_key_to_keychain", "request", KeychainEntry),
                 Op("save_access_key_to_keychain", "response", saved)>>
        /\ login_keychain' = IF IsOk(saved) THEN login_keychain \cup {KeychainEntry}
                             ELSE login_keychain
        /\ login_result' = Some(IF IsOk(saved) THEN Ok(None)
                                ELSE Err("Failed to save a file with access key"))
    /\ login_pc' = "returned"
    /\ UNCHANGED <<login_server, login_command, login_locals>>
    /\ UNCHANGED notLoginVars

NextLogin ==
    \/ ServerIntoCliStatusRequest
    \/ ServerIntoCliStatusAnswer
    \/ ServerProcessStart
    \/ ServerProcessQueryErr
    \/ ServerProcessQueryOk

(***************************************************************************)
(* Action chain: ContractFile::process, AddAccessKeyAction::process,       *)
(* FunctionCallType::process                                               *)
(***************************************************************************)
MaxChain == 3

\* ContractFile { file_path, next_action }
ContractFileNode(file_path) == [node |-> "ContractFile", file_path |-> file_path]

\* AddAccessKeyAction { public_key, nonce, permission: GrantFunctionCallAccess(..) }
AddAccessKeyNode(public_key, nonce, allowance, receiver_id, method_names) ==
    [node |-> "AddAccessKeyAction", public_key |-> public_key, nonce |-> nonce,
     permission |-> [allowance |-> allowance, receiver_id |-> receiver_id,
                     method_names |-> method_names]]

ChainNodes ==
    {ContractFileNode(f) : f \in {"a.wasm", "b.wasm"}} \cup
    {AddAccessKeyNode("ed25519:new", n, a, "bob.near", m) :
        n \in {<<0>>, <<5>>}, a \in {None, Some(<<1>>)},
        m \in {<<>>, <<"get", "set">>}}

FileContents == {"wasm_1", "wasm_2"}

\* a transaction built with the new action as its only action
ContractFilePush_Replace(prepopulated, action) ==
    [prepopulated EXCEPT !.actions = <<action>>]

\* `actions = prepopulated.actions.clone(); actions.push(action);
\*  Transaction { actions, ..prepopulated }` of ContractFile::process
ContractFilePush(prepopulated, action) ==
    [prepopulated EXCEPT !.actions = Append(@, action)]

\* an action pushed at the front of the list
FunctionCallTypePush_Front(prepopulated, action) ==
    [prepopulated EXCEPT !.actions = <<action>> \o @]

\* the same three statements of FunctionCallType::process
FunctionCallTypePush(prepopulated, action) ==
    [prepopulated EXCEPT !.actions = Append(@, action)]

\* the AddKey action FunctionCallType::process builds
FunctionCallTypeAction(self, nonce, public_key) ==
    AddKey(public_key,
           AccessKey(nonce, FunctionCallPermission(self.allowance, self.receiver_id,
                                                   self.method_names)))

InitChain ==
    /\ chain \in SeqsUpTo(ChainNodes, MaxChain)
    /\ chain_next = 1
    /\ chain_initial \in [signer_id : {"alice.near"}, public_key : {PlaceholderPublicKey},
                          nonce : {<<0>>}, receiver_id : {"alice.near"},
                          block_hash : {DefaultBlockHash},
                          actions : {<<>>, <<A_AddKey>>}]
    /\ chain_tx = chain_initial
    /\ chain_reads = <<>>
    /\ chain_pc = "node"
    /\ chain_result = None

\* ContractFile::process when std::fs::read succeeds
ContractFileProcess ==
    /\ chain_pc = "node"
    /\ chain_next <= Len(chain)
    /\ chain[chain_next].node = "ContractFile"
    /\ \E code \in FileContents :
        /\ chain_reads' = Append(chain_reads,
                                 [at |-> chain_next, file_path |-> chain[chain_next].file_path,
                                  result |-> Ok(code)])
        /\ chain_tx' = ContractFilePush(chain_tx, DeployContract(code))
    /\ chain_next' = chain_next + 1
    /\ UNCHANGED <<chain, chain_initial, chain_pc, chain_result>>
    /\ UNCHANGED notChainVars

\* a ContractFile::process that deploys empty code when the file cannot be read
ContractFileReadErr_Continues ==
    /\ chain_pc = "node"
    /\ chain_next <= Len(chain)
    /\ chain[chain_next].node = "ContractFile"
    /\ chain_reads' = Append(chain_reads,
                             [at |-> chain_next, file_path |-> chain[chain_next].file_path,
                              result |-> Err("io")])
    /\ chain_tx' = ContractFilePush(chain_tx, DeployContract("wasm_1"))
    /\ chain_next' = chain_next + 1
    /\ UNCHANGED <<chain, chain_initial, chain_pc, chain_result>>
    /\ UNCHANGED notChainVars

\* ContractFile::process when std::fs::read fails: `.map_err(..)?`
ContractFileReadErr ==
    /\ chain_pc = "node"
    /\ chain_next <= Len(chain)
    /\ chain[chain_next].node = "ContractFile"
    /\ chain_reads' = Append(chain_reads,
                             [at |-> chain_next, file_path |-> chain[chain_next].file_path,
                              result |-> Err("io")])
    /\ chain_result' = Some(Err("Failed to open file"))
    /\ chain_pc' = "returned"
    /\ UNCHANGED <<chain, chain_next, chain_initial, chain_tx>>
    /\ UNCHANGED notChainVars

\* AddAccessKeyAction::process with a function-call permission:
\* function_call_type.process(self.nonce, prepopulated, config, self.public_key)
AddAccessKeyProcess ==
    /\ chain_pc = "node"
    /\ chain_next <= Len(chain)
    /\ chain[chain_next].node = "AddAccessKeyAction"
    /\ LET self == chain[chain_next]
       IN chain_tx' = FunctionCallTypePush(
                          chain_tx,
                          FunctionCallTypeAction(self.permission, self.nonce, self.public_key))
    /\ chain_next' = chain_next + 1
    /\ UNCHANGED <<chain, chain_initial, chain_reads, chain_pc, chain_result>>
    /\ UNCHANGED notChainVars

\* the last node's next_action is Skip: skip_action.process(unsigned_transaction, ..)
\* receives the transaction for signing
SkipProcess ==
    /\ chain_pc = "node"
    /\ chain_next = Len(chain) + 1
    /\ chain_pc' = "terminal"
    /\ UNCHANGED <<chain, chain_next, chain_initial, chain_tx, chain_reads, chain_result>>
    /\ UNCHANGED notChainVars

NextChain ==
    \/ ContractFileProcess
    \/ ContractFileReadErr
    \/ AddAccessKeyProcess
    \/ SkipProcess

(***************************************************************************)
(* GenerateKeypair::process                                                *)
(***************************************************************************)
\* add_access_key::AccessKeyPermission
AccessKeyPermissions ==
    {[kind |-> "GrantFullAccess"]} \cup
    {[kind |-> "GrantFunctionCallAccess", allowance |-> a, receiver_id |-> "bob.near",
      method_names |-> m] : a \in {None, Some(<<1>>)}, m \in {<<>>, <<"get", "set">>}}

\* the AddKey action FullAccessType::process builds
FullAccessTypeAction(nonce, public_key) ==
    AddKey(public_key, AccessKey(nonce, [kind |-> "FullAccess"]))

\* the action the permission's process appends
PermissionAction(permission, nonce, public_key) ==
    IF permission.kind = "GrantFullAccess"
    THEN FullAccessTypeAction(nonce, public_key)
    ELSE FunctionCallTypeAction(permission, nonce, public_key)

InitKeygen ==
    /\ keygen_self \in [permission : AccessKeyPermissions]
    /\ keygen_config \in OptionOf({"Testnet"})
    /\ keygen_tx \in PrepopulatedTransactions
    /\ keygen_pc = "process"
    /\ keygen_key = None
    /\ keygen_keychain = {}
    /\ keygen_calls = <<>>
    /\ keygen_result = None

\* the access key GenerateKeypair::process asks the keychain to write
KeygenKeychainEntry(key_pair_properties) ==
    [connection_config |-> keygen_config,
     key_pair_properties |-> key_pair_properties,
     account_id |-> keygen_tx.receiver_id]

\* a process that goes on to the permission when the key could not be saved
GenerateKeypairSave_IgnoresErr ==
    /\ keygen_pc = "process"
    /\ \E key_pair_properties \in KeyPairs, saved \in {Ok(None), Err("io")} :
        /\ keygen_key' = Some(key_pair_properties)
        /\ keygen_calls' = keygen_calls \o
               <<Op("save_access_key_to_keychain", "request",
                    KeygenKeychainEntry(key_pair_properties)),
                 Op("save_access_key_to_keychain", "response", saved)>>
        /\ keygen_keychain' =
               IF IsOk(saved)
               THEN keygen_keychain \cup {KeygenKeychainEntry(key_pair_properties)}
               ELSE keygen_keychain
    /\ keygen_pc' = "saved"
    /\ UNCHANGED <<keygen_self, keygen_config, keygen_tx, keygen_result>>
    /\ UNCHANGED notKeygenVars

\* GenerateKeypair::process up to the end of the keychain write:
\* generate_keypair().await?, save_access_key_to_keychain(..).await.map_err(..)?
GenerateKeypairSave ==
    /\ keygen_pc = "process"
    /\ \E generated \in {Ok(k) : k \in KeyPairs} \cup {Err("generate_keypair")},
          saved \in {Ok(None), Err("io")} :
        IF IsErr(generated)
        THEN /\ keygen_result' = Some(generated)
             /\ keygen_pc' = "returned"
             /\ UNCHANGED <<keygen_key, keygen_calls, keygen_keychain>>
        ELSE /\ keygen_key' = Some(generated.value)
             /\ keygen_calls' = keygen_calls \o
                    <<Op("save_access_key_to_keychain", "request",
                         KeygenKeychainEntry(generated.value)),
                      Op("save_access_key_to_keychain", "response", saved)>>
             /\ IF IsOk(saved)
                THEN /\ keygen_keychain' =
                            keygen_keychain \cup {KeygenKeychainEntry(generated.value)}
                     /\ keygen_pc' = "saved"
                     /\ keygen_result' = keygen_result
                ELSE /\ keygen_keychain' = keygen_keychain
                     /\ keygen_pc' = "returned"
                     /\ keygen_result' =
                            Some(Err("Failed to save a file with access key"))
    /\ UNCHANGED <<keygen_self, keygen_config, keygen_tx>>
    /\ UNCHANGED notKeygenVars

\* `match self.permission`: the permission's process is called with nonce 0, the
\* prepopulated transaction and the public key parsed from public_key_str; it appends
\* its AddKey action and calls the next node, whose result process returns
GenerateKeypairPermissionProcess ==
    /\ keygen_pc = "saved"
    /\ \E result \in {Ok(None), Err("next_action")} :
        LET public_key == keygen_key.value.public_key_str
            action == PermissionAction(keygen_self.permission, <<0>>, public_key)
            unsigned_transaction == FunctionCallTypePush(keygen_tx, action)
        IN /\ keygen_calls' = keygen_calls \o
                  <<Op("permission.process", "request",
                       [nonce |-> <<0>>, prepopulated_unsigned_transaction |-> keygen_tx,
                        network_connection_config |-> keygen_config,
                        public_key |-> public_key]),
                    Op("next_action.process", "request", unsigned_transaction)>>
           /\ keygen_result' = Some(result)
    /\ keygen_pc' = "returned"
    /\ UNCHANGED <<keygen_self, keygen_config, keygen_tx, keygen_key, keygen_keychain>>
    /\ UNCHANGED notKeygenVars

NextKeygen ==
    \/ GenerateKeypairSave
    \/ GenerateKeypairPermissionProcess

(***************************************************************************)
(* A pipeline run: the chain is resolved down to its Ledger signer         *)
(* (ContractFile::from .. SignLedger::from), then processed from the top   *)
(* (ContractFile::process .. the signer)                                   *)
(***************************************************************************)
PipelineNodes ==
    {ContractFileNode("a.wasm"),
     AddAccessKeyNode("ed25519:new", <<5>>, None, "bob.near", <<"get", "set">>)}

InitPipeline ==
    /\ item \in [seed_phrase_hd_path : OptionOf({"44'/397'/0'/0'/1'"}),
                 nonce : OptionOf({<<5>>}),
                 block_hash : OptionOf({"hash_P"}),
                 submit : {None}]
    /\ connection_config \in OptionOf({"Testnet"})
    /\ chain \in SeqsUpTo(PipelineNodes, MaxChain)
    /\ chain_next = 1
    /\ chain_initial \in [signer_id : {"alice.near"}, public_key : {PlaceholderPublicKey},
                          nonce : {<<0>>}, receiver_id : {"alice.near"},
                          block_hash : {DefaultBlockHash},
                          actions : {<<>>}]
    /\ chain_tx = chain_initial
    /\ prepopulated_unsigned_transaction = chain_initial
    /\ sign_ledger = None
    /\ ledger_pc = "from"
    /\ ledger_locals = NoLocals
    /\ ops = <<>>
    /\ ledger_result = None
    /\ chain_reads = <<>>
    /\ chain_pc = "node"
    /\ chain_result = None

\* every node's from has returned Ok: the top node's process is called
PipelineResolved == ledger_pc = "built"

PipelineContractFileProcess == PipelineResolved /\ ContractFileProcess

PipelineContractFileReadErr == PipelineResolved /\ ContractFileReadErr

PipelineAddAccessKeyProcess == PipelineResolved /\ AddAccessKeyProcess

\* the last node's next_action is Skip: skip_action.process(unsigned_transaction, ..)
\* hands the transaction to the signer as its prepopulated_unsigned_transaction
PipelineSkipProcess ==
    /\ PipelineResolved
    /\ chain_pc = "node"
    /\ chain_next = Len(chain) + 1
    /\ chain_pc' = "terminal"
    /\ prepopulated_unsigned_transaction' = chain_tx
    /\ UNCHANGED <<chain, chain_next, chain_initial, chain_tx, chain_reads, chain_result>>
    /\ UNCHANGED <<item, connection_config, sign_ledger, ledger_pc, ledger_locals, ops,
                   ledger_result>>
    /\ UNCHANGED <<submitVars, utilVars, deleteVars, loginVars, keygenVars, textVars>>

\* a signer that may start as soon as it is built
PipelineSignerCalled_Early == ledger_pc = "built"

\* SignLedger::process is the tail call of the last node's process
PipelineSignerCalled == chain_pc = "terminal"

\* SignLedger::process on the transaction the chain built
PipelineSignerProcess ==
    /\ PipelineSignerCalled
    /\ \/ ProcessOffline
       \/ ProcessNetworkQuery
       \/ QueryErr
       \/ QueryNotAccessKey
       \/ QueryAccessKey
       \/ SignOk
       \/ SignErr
       \/ SubmitReturned

NextPipeline ==
    \/ FromRequestPublicKey
    \/ FromPublicKeyOk
    \/ FromPublicKeyErr
    \/ PipelineContractFileProcess
    \/ PipelineContractFileReadErr
    \/ PipelineAddAccessKeyProcess
    \/ PipelineSkipProcess
    \/ PipelineSignerProcess

(***************************************************************************)
(* Command-line tokens: to_cli_args and the parse of its output            *)
(***************************************************************************)
MaxAllowanceExp == 26

F_nonce == <<"-", "-", "n", "o", "n", "c", "e">>
F_block_hash == <<"-", "-", "b", "l", "o", "c", "k", "-", "h", "a", "s", "h">>
F_seed_phrase_hd_path == <<"-", "-", "s", "e", "e", "d", "-", "p", "h", "r", "a", "s", "e", "-", "h", "d", "-", "p", "a", "t", "h">>
F_method_names == <<"-", "-", "m", "e", "t", "h", "o", "d", "-", "n", "a", "m", "e", "s">>
F_allowance == <<"-", "-", "a", "l", "l", "o", "w", "a", "n", "c", "e">>
F_receiver_id == <<"-", "-", "r", "e", "c", "e", "i", "v", "e", "r", "-", "i", "d">>
K_grant_function_call_access == <<"g", "r", "a", "n", "t", "-", "f", "u", "n", "c", "t", "i", "o", "n", "-", "c", "a", "l", "l", "-", "a", "c", "c", "e", "s", "s">>
K_grant_full_access == <<"g", "r", "a", "n", "t", "-", "f", "u", "l", "l", "-", "a", "c", "c", "e", "s", "s">>
K_skip == <<"s", "k", "i", "p">>
K_send == <<"s", "e", "n", "d">>
K_display == <<"d", "i", "s", "p", "l", "a", "y">>

\* the text of the values whose Display and FromStr are library code
\* (slip10::BIP32Path, CryptoHash, PublicKey)
AtomTexts ==
    {<<"44'/397'/0'/0'/1'", <<"4", "4", "'", "/", "3", "9", "7", "'", "/", "0", "'", "/", "0", "'", "/", "1", "'">>>>,
     <<"hash_P", <<"9", "f", "P", "2">>>>,
     <<"hash_Q", <<"3", "x", "Q", "7">>>>,
     <<"ed25519:new", <<"e", "d", "2", "5", "5", "1", "9", ":", "6", "E", "8", "s">>>>}

\* ToString::to_string of such a value
AtomToString(v) == (CHOOSE p \in AtomTexts : p[1] = v)[2]

\* str::parse of such a value
AtomFromStr(s) ==
    IF \E p \in AtomTexts : p[2] = s
    THEN Ok((CHOOSE p \in AtomTexts : p[2] = s)[1])
    ELSE Err("invalid value")

\* Submit::to_cli_args
SubmitToCliArgs(submit) == IF submit = "Send" THEN <<K_send>> ELSE <<K_display>>

\* the parse of the Submit subcommand
SubmitParse(tokens) ==
    IF tokens = <<>> THEN Ok(None)
    ELSE IF tokens = <<K_send>> THEN Ok(Some("Send"))
    ELSE IF tokens = <<K_display>> THEN Ok(Some("Display"))
    ELSE Err("unrecognized subcommand")

\* CliSkipNextAction::to_cli_args of Skip(CliSkipAction { sign_option: None })
SkipNextActionToCliArgs(next_action) == <<K_skip>>

\* the parse of the CliSkipNextAction subcommand
SkipNextActionParse(tokens) ==
    IF tokens = <<>> THEN Ok(None)
    ELSE IF tokens = <<K_skip>> THEN Ok(Some("Skip"))
    ELSE Err("unrecognized subcommand")

RECURSIVE LongOptions(_, _)
\* the leading `--flag value` pairs of a token sequence, as a set of pairs
LongOptions(tokens, flags) ==
    IF Len(tokens) >= 2 /\ tokens[1] \in flags
    THEN {<<tokens[1], tokens[2]>>} \cup LongOptions(Drop(tokens, 2), flags)
    ELSE {}

RECURSIVE AfterLongOptions(_, _)
\* what follows the leading `--flag value` pairs
AfterLongOptions(tokens, flags) ==
    IF Len(tokens) >= 2 /\ tokens[1] \in flags
    THEN AfterLongOptions(Drop(tokens, 2), flags)
    ELSE tokens

\* the value given for a flag, if any
OptionValue(options, flag) ==
    IF \E o \in options : o[1] = flag
    THEN Some((CHOOSE o \in options : o[1] = flag)[2])
    ELSE None

\* a typed optional field from an optional token
ParsedField(token, parsed) ==
    IF ~IsSome(token) THEN Ok(None)
    ELSE IF IsErr(parsed) THEN parsed
    ELSE Ok(Some(parsed.value))

\* CliSignLedger::to_cli_args
CliSignLedgerToCliArgs(self) ==
    LET args0 == IF IsSome(self.submit) THEN SubmitToCliArgs(self.submit.value) ELSE <<>>
        args1 == IF IsSome(self.nonce)
                 THEN <<F_nonce, DecToString(self.nonce.value)>> \o args0 ELSE args0
    IN IF IsSome(self.block_hash)
       THEN <<F_block_hash, AtomToString(self.block_hash.value)>> \o args1
       ELSE args1

\* the parse of a token sequence into CliSignLedger: three long options, then the
\* submit subcommand
CliSignLedgerParse(tokens) ==
    LET flags == {F_seed_phrase_hd_path, F_nonce, F_block_hash}
        options == LongOptions(tokens, flags)
        hd_token == OptionValue(options, F_seed_phrase_hd_path)
        nonce_token == OptionValue(options, F_nonce)
        hash_token == OptionValue(options, F_block_hash)
        hd_path == ParsedField(hd_token,
                       IF IsSome(hd_token) THEN AtomFromStr(hd_token.value) ELSE Err(""))
        nonce == ParsedField(nonce_token,
                     IF IsSome(nonce_token) THEN ParseUnsigned(nonce_token.value, U64_MAX)
                     ELSE Err(""))
        block_hash == ParsedField(hash_token,
                          IF IsSome(hash_token) THEN AtomFromStr(hash_token.value)
                          ELSE Err(""))
        submit == SubmitParse(AfterLongOptions(tokens, flags))
    IN IF IsErr(hd_path) THEN hd_path
       ELSE IF IsErr(nonce) THEN nonce
       ELSE IF IsErr(block_hash) THEN block_hash
       ELSE IF IsErr(submit) THEN submit
       ELSE Ok([seed_phrase_hd_path |-> hd_path.value, nonce |-> nonce.value,
                block_hash |-> block_hash.value, submit |-> submit.value])

\* CliFunctionCallType::to_cli_args
CliFunctionCallTypeToCliArgs(self) ==
    LET args0 == IF IsSome(self.next_action)
                 THEN SkipNextActionToCliArgs(self.next_action.value) ELSE <<>>
        args1 == IF IsSome(self.method_names)
                 THEN <<F_method_names, self.method_names.value>> \o args0 ELSE args0
        args2 == IF IsSome(self.allowance)
                 THEN <<F_allowance, NearBalanceDisplay(self.allowance.value)>> \o args1
                 ELSE args1
    IN IF IsSome(self.receiver_id)
       THEN <<F_receiver_id, self.receiver_id.value>> \o args2
       ELSE args2

\* the parse of a token sequence into CliFunctionCallType: three long options, then
\* the next_action subcommand
CliFunctionCallTypeParse(tokens) ==
    LET flags == {F_allowance, F_receiver_id, F_method_names}
        options == LongOptions(tokens, flags)
        allowance_token == OptionValue(options, F_allowance)
        allowance == ParsedField(allowance_token,
                         IF IsSome(allowance_token)
                         THEN NearBalanceFromStr(allowance_token.value) ELSE Err(""))
        next_action == SkipNextActionParse(AfterLongOptions(tokens, flags))
    IN IF IsErr(allowance) THEN allowance
       ELSE IF IsErr(next_action) THEN next_action
       ELSE Ok([allowance |-> allowance.value,
                receiver_id |-> OptionValue(options, F_receiver_id),
                method_names |-> OptionValue(options, F_method_names),
                next_action |-> next_action.value])

\* CliAccessKeyPermission::to_cli_args, GrantFunctionCallAccess arm
CliAccessKeyPermissionToCliArgs(self) ==
    <<K_grant_function_call_access>> \o CliFunctionCallTypeToCliArgs(self)

\* CliAddAccessKeyAction::to_cli_args
CliAddAccessKeyActionToCliArgs(self) ==
    LET args0 == IF IsSome(self.permission)
                 THEN CliAccessKeyPermissionToCliArgs(self.permission.value) ELSE <<>>
    IN IF IsSome(self.public_key)
       THEN <<AtomToString(self.public_key.value)>> \o args0
       ELSE args0

\* the parse of a token sequence into CliAddAccessKeyAction: the positional
\* public_key and nonce, then the permission subcommand
CliAddAccessKeyActionParse(tokens) ==
    LET subcommands == {K_grant_function_call_access, K_grant_full_access}
        first == IF \E i \in 1..Len(tokens) : tokens[i] \in subcommands
                 THEN CHOOSE i \in 1..Len(tokens) :
                          /\ tokens[i] \in subcommands
                          /\ \A j \in 1..(i - 1) : tokens[j] \notin subcommands
                 ELSE Len(tokens) + 1
        positional == Take(tokens, first - 1)
        public_key == IF Len(positional) >= 1 THEN AtomFromStr(positional[1]) ELSE Err("")
        nonce == IF Len(positional) >= 2 THEN ParseUnsigned(positional[2], U64_MAX)
                 ELSE Err("")
        permission == IF first <= Len(tokens)
                      THEN CliFunctionCallTypeParse(Drop(tokens, first)) ELSE Err("")
    IN IF Len(positional) > 2 THEN Err("unexpected argument")
       ELSE IF Len(positional) >= 1 /\ IsErr(public_key) THEN public_key
       ELSE IF Len(positional) >= 2 /\ IsErr(nonce) THEN nonce
       ELSE IF first <= Len(tokens) /\ (tokens[first] # K_grant_function_call_access
                                        \/ IsErr(permission))
       THEN Err("invalid permission")
       ELSE Ok([public_key |-> IF Len(positional) >= 1 THEN Some(public_key.value) ELSE None,
                nonce |-> IF Len(positional) >= 2 THEN Some(nonce.value) ELSE None,
                permission |-> IF first <= Len(tokens) THEN Some(permission.value)
                               ELSE None])

\* the allowances to_cli_args is applied to
Allowances ==
    {<<0>>, U128_MAX} \cup
    {DecMulPow10(m, k) : m \in {<<1>>, <<1, 5>>, <<1, 0, 0, 5>>}, k \in 0..MaxAllowanceExp}

T_bob_near == <<"b", "o", "b", ".", "n", "e", "a", "r">>
T_get_set == <<"g", "e", "t", ",", "s", "e", "t">>

CliFunctionCallTypes ==
    [allowance : OptionOf(Allowances), receiver_id : {Some(T_bob_near)},
     method_names : {Some(T_get_set)}, next_action : {Some("Skip")}]

CliSignLedgers ==
    [seed_phrase_hd_path : OptionOf({"44'/397'/0'/0'/1'"}),
     nonce : OptionOf({<<0>>, <<5>>, U64_MAX}),
     block_hash : OptionOf({"hash_P", "hash_Q"}),
     submit : OptionOf(Submits)]

CliAddAccessKeyActions ==
    [public_key : OptionOf({"ed25519:new"}),
     nonce : OptionOf({<<0>>, <<5>>}),
     permission : OptionOf([allowance : {None, Some(DecMulPow10(<<2>>, ONE_NEAR_DIGITS))},
                            receiver_id : {Some(T_bob_near)},
                            method_names : {None, Some(T_get_set)},
                            next_action : {Some("Skip")}])]

\* the texts given as a list of method names
MethodNamesInputs ==
    {<<>>,
     <<"g", "e", "t">>,
     <<"g", "e", "t", ",", "s", "e", "t">>,
     <<"g", "e", "t", ",", " ", "s", "e", "t">>,
     <<"g", "e", "t", ",">>,
     <<",">>,
     <<"a", "\"", "b">>,
     <<"\"", "g", "e", "t", "\"", ",", "\"", "s", "e", "t", "\"">>,
     <<"\"">>}

\* FunctionCallType::from, `match item.method_names`, the Some arm
MethodNamesFromCli(cli_method_names) ==
    IF cli_method_names = <<>> THEN <<>> ELSE SplitChar(cli_method_names, ",")

\* FunctionCallType::input_method_names: the answer to the Select (0 or 1) and the
\* text entered after answer 0
InputMethodNames(select_choose_input, entered) ==
    IF select_choose_input = 0
    THEN LET input_method_names == IF Contains(entered, <<"\"">>) THEN <<>> ELSE entered
         IN IF input_method_names = <<>> THEN <<>>
            ELSE SplitChar(input_method_names, ",")
    ELSE <<>>

RECURSIVE Join(_, _)
\* [String]::join(sep)
Join(names, sep) ==
    IF names = <<>> THEN <<>>
    ELSE IF Len(names) = 1 THEN names[1]
    ELSE names[1] \o sep \o Join(Tail(names), sep)

\* impl From<FunctionCallType> for CliFunctionCallType
\* (NearBalance::from_yoctonear wraps the u128 as it is)
FunctionCallTypeIntoCli(function_call_type) ==
    [allowance |-> Some(UnwrapOrDefault(function_call_type.allowance, <<0>>)),
     receiver_id |-> Some(function_call_type.receiver_id),
     method_names |-> Some(Join(function_call_type.method_names, <<",", " ">>)),
     next_action |-> Some("Skip")]

\* FunctionCallType::from: a field the Cli value holds is taken from it
\* (to_yoctonear unwraps the u128 as it is), an omitted one from the prompt
FunctionCallTypeFrom(cli, prompted) ==
    [allowance |-> IF IsSome(cli.allowance) THEN Some(cli.allowance.value)
                   ELSE prompted.allowance,
     receiver_id |-> IF IsSome(cli.receiver_id) THEN cli.receiver_id.value
                     ELSE prompted.receiver_id,
     method_names |-> IF IsSome(cli.method_names)
                      THEN MethodNamesFromCli(cli.method_names.value)
                      ELSE prompted.method_names,
     next_action |-> IF IsSome(cli.next_action) THEN cli.next_action.value
                     ELSE prompted.next_action]

\* FunctionCallType values
FunctionCallTypes ==
    [allowance : {None, Some(<<0>>), Some(<<1, 5>>)},
     receiver_id : {T_bob_near},
     method_names : {<<>>, <<<<"g", "e", "t">>>>, <<<<"g", "e", "t">>, <<"s", "e", "t">>>>},
     next_action : {"Skip", "AddAction"}]

\* the parts a balance text is put together from: the integer part, the fractional
\* part after a "." (None: no "."), the whitespace before the unit, and the unit
BalanceIntParts ==
    {<<"0">>,
     <<"1", "0">>,
     <<"0", "0", "7">>,
     <<"3", "4", "0", "2", "8", "2", "3", "6", "6", "9", "2", "0", "9", "3", "8">>,
     <<"3", "4", "0", "2", "8", "2", "3", "6", "6", "9", "2", "0", "9", "3", "9">>,
     <<"3", "4", "0", "2", "8", "2", "3", "6", "6", "9", "2", "0", "9", "3", "8", "4", "6", "3", "4", "6", "3", "3", "7", "4", "6", "0", "7", "4", "3", "1", "7", "6", "8", "2", "1", "1", "4", "5", "5">>,
     <<"3", "4", "0", "2", "8", "2", "3", "6", "6", "9", "2", "0", "9", "3", "8", "4", "6", "3", "4", "6", "3", "3", "7", "4", "6", "0", "7", "4", "3", "1", "7", "6", "8", "2", "1", "1", "4", "5", "6">>,
     <<>>,
     <<"-", "1">>}
BalanceFractParts ==
    {None} \cup {Some(f) : f \in
    {<<"0", "5", "5">>,
     <<"5">>,
     <<"0", "0", "0", "0", "0", "1">>,
     <<"0", "0", "0", "0", "0", "0", "0", "0", "0", "0", "0", "0", "0", "0", "0", "0", "0", "0", "0", "0", "0", "0", "0", "1">>,
     <<"0", "0", "0", "0", "0", "0", "0", "0", "0", "0", "0", "0", "0", "0", "0", "0", "0", "0", "0", "0", "0", "0", "0", "0", "1">>,
     <<"4", "6", "3", "4", "6", "3", "3", "7", "4", "6", "0", "7", "4", "3", "1", "7", "6", "8", "2", "1", "1", "4", "5", "5">>,
     <<"4", "6", "3", "4", "6", "3", "3", "7", "4", "6", "0", "7", "4", "3", "1", "7", "6", "8", "2", "1", "1", "4", "5", "6">>,
     <<>>}}
UnitSpaces == {<<>>, <<" ">>}
NearUnits == {<<"N">>,
              <<"N", "E", "A", "R">>,
              <<"n", "e", "a", "r">>,
              <<"N", "e", "a", "r">>,
              <<"n">>}
YoctoUnits == {<<"y", "n">>,
               <<"y", "n", "e", "a", "r">>,
               <<"Y", "o", "c", "t", "o", "N", "E", "A", "R">>,
               <<"y", "o", "c", "t", "o", "N">>}
OtherUnits == {<<>>,
               <<"N", "E", "A", "R", "S">>,
               <<"t", "g", "a", "s">>}

\* the text of a number with its unit
NumberText(c) ==
    c.int \o (IF IsSome(c.fract) THEN <<".">> \o c.fract.value ELSE <<>>)
          \o c.space \o c.unit

BalanceTexts ==
    [int : BalanceIntParts, fract : BalanceFractParts, space : UnitSpaces,
     unit : NearUnits \cup YoctoUnits \cup OtherUnits]

GasIntParts ==
    {<<"0">>,
     <<"1", "0">>,
     <<"0", "0", "7">>,
     <<"1", "8", "4", "4", "6", "7", "4", "4">>,
     <<"1", "8", "4", "4", "6", "7", "4", "5">>,
     <<"1", "8", "4", "4", "6", "7", "4", "4", "0", "7", "3">>,
     <<"1", "8", "4", "4", "6", "7", "4", "4", "0", "7", "4">>,
     <<"1", "8", "4", "4", "6", "7", "4", "4", "0", "7", "3", "7", "0", "9", "5", "5", "1", "6", "1", "5">>,
     <<"1", "8", "4", "4", "6", "7", "4", "4", "0", "7", "3", "7", "0", "9", "5", "5", "1", "6", "1", "6">>,
     <<>>,
     <<"-", "1">>}
GasFractParts ==
    {None} \cup {Some(f) : f \in
    {<<"5">>,
     <<"0", "5", "5">>,
     <<"0", "0", "0", "0", "0", "0", "0", "0", "0", "1">>,
     <<"0", "0", "0", "0", "0", "0", "0", "0", "0", "0", "0", "1">>,
     <<"0", "0", "0", "0", "0", "0", "0", "0", "0", "0", "0", "0", "1">>,
     <<"0", "7", "3", "7", "0", "9", "5", "5", "1", "6", "1", "5">>,
     <<"0", "7", "3", "7", "0", "9", "5", "5", "1", "6", "1", "6">>,
     <<"7", "0", "9", "5", "5", "1", "6", "1", "5">>}}
TeraUnits == {<<"T">>,
              <<"T", "G", "A", "S">>,
              <<"T", "e", "r", "a", "G", "a", "s">>,
              <<"t", "g", "a", "s">>}
GigaUnits == {<<"G", "G", "A", "S">>,
              <<"g", "i", "g", "a", "g", "a", "s">>,
              <<"G", "g", "a", "s">>}
OtherGasUnits == {<<>>,
                  <<"g", "a", "s">>,
                  <<"N", "E", "A", "R">>}

GasTexts ==
    [int : GasIntParts, fract : GasFractParts, space : UnitSpaces,
     unit : TeraUnits \cup GigaUnits \cup OtherGasUnits]

TextCases ==
    {[type |-> "NearGas", number |-> c] : c \in GasTexts} \cup
    {[type |-> "NearBalance", number |-> c] : c \in BalanceTexts} \cup
    {[type |-> "MethodNames", path |-> p, input |-> i] :
        p \in {"cli", "prompt"}, i \in MethodNamesInputs} \cup
    {[type |-> "FunctionCallType", value |-> t] : t \in FunctionCallTypes} \cup
    {[type |-> "CliFunctionCallType", cli |-> c] : c \in CliFunctionCallTypes} \cup
    {[type |-> "CliSignLedger", cli |-> c] : c \in CliSignLedgers} \cup
    {[type |-> "CliAddAccessKeyAction", cli |-> c] : c \in CliAddAccessKeyActions}

InitText ==
    /\ text_case \in TextCases
    /\ text_out = None

\* to_cli_args of a CliFunctionCallType, and the parse of the tokens
FunctionCallTypeTokens ==
    /\ text_out = None
    /\ text_case.type = "CliFunctionCallType"
    /\ LET tokens == CliFunctionCallTypeToCliArgs(text_case.cli)
       IN text_out' = Some([tokens |-> tokens, parsed |-> CliFunctionCallTypeParse(tokens)])
    /\ UNCHANGED text_case
    /\ UNCHANGED notTextVars

\* a FunctionCallType is converted to its Cli value and resolved back; what is
\* answered at the prompts of omitted fields is free
FunctionCallTypeRoundTrip ==
    /\ text_out = None
    /\ text_case.type = "FunctionCallType"
    /\ \E prompted \in FunctionCallTypes :
        LET cli == FunctionCallTypeIntoCli(text_case.value)
        IN text_out' = Some([cli |-> cli, resolved |-> Ok(FunctionCallTypeFrom(cli, prompted))])
    /\ UNCHANGED text_case
    /\ UNCHANGED notTextVars

\* to_cli_args of a CliSignLedger, and the parse of the tokens
SignLedgerTokens ==
    /\ text_out = None
    /\ text_case.type = "CliSignLedger"
    /\ LET tokens == CliSignLedgerToCliArgs(text_case.cli)
       IN text_out' = Some([tokens |-> tokens, parsed |-> CliSignLedgerParse(tokens)])
    /\ UNCHANGED text_case
    /\ UNCHANGED notTextVars

\* to_cli_args of a CliAddAccessKeyAction, and the parse of the tokens
AddAccessKeyActionTokens ==
    /\ text_out = None
    /\ text_case.type = "CliAddAccessKeyAction"
    /\ LET tokens == CliAddAccessKeyActionToCliArgs(text_case.cli)
       IN text_out' = Some([tokens |-> tokens, parsed |-> CliAddAccessKeyActionParse(tokens)])
    /\ UNCHANGED text_case
    /\ UNCHANGED notTextVars

\* the method names FunctionCallType::from resolves: from the command-line value, or
\* from the prompt answered "Yes" and the text entered
MethodNamesResolve ==
    /\ text_out = None
    /\ text_case.type = "MethodNames"
    /\ text_out' = Some([method_names |->
                            IF text_case.path = "cli"
                            THEN MethodNamesFromCli(text_case.input)
                            ELSE InputMethodNames(0, text_case.input)])
    /\ UNCHANGED text_case
    /\ UNCHANGED notTextVars

\* the prompt answered "No"
MethodNamesDeclined ==
    /\ text_out = None
    /\ text_case.type = "MethodNames"
    /\ text_case.path = "prompt"
    /\ text_out' = Some([method_names |-> InputMethodNames(1, text_case.input),
                         declined |-> TRUE])
    /\ UNCHANGED text_case
    /\ UNCHANGED notTextVars

\* NearBalance::from_str of a text (the surrounding blanks are trimmed by from_str)
NearBalanceParseText ==
    /\ text_out = None
    /\ text_case.type = "NearBalance"
    /\ \E padding \in {<<>>, <<" ">>} :
        LET text == padding \o NumberText(text_case.number) \o padding
        IN text_out' = Some([text |-> text, parsed |-> NearBalanceFromStr(text)])
    /\ UNCHANGED text_case
    /\ UNCHANGED notTextVars

\* NearGas::from_str of a text
NearGasParseText ==
    /\ text_out = None
    /\ text_case.type = "NearGas"
    /\ \E padding \in {<<>>, <<" ">>} :
        LET text == padding \o NumberText(text_case.number) \o padding
        IN text_out' = Some([text |-> text, parsed |-> NearGasFromStr(text)])
    /\ UNCHANGED text_case
    /\ UNCHANGED notTextVars

NextText ==
    \/ NearGasParseText
    \/ NearBalanceParseText
    \/ MethodNamesResolve
    \/ MethodNamesDeclined
    \/ FunctionCallTypeTokens
    \/ FunctionCallTypeRoundTrip
    \/ SignLedgerTokens
    \/ AddAccessKeyActionTokens

(***************************************************************************)
(* Idle values of the groups a specification does not use                  *)
(***************************************************************************)
IdleLedger ==
    /\ item = None
    /\ connection_config = None
    /\ prepopulated_unsigned_transaction = None
    /\ sign_ledger = None
    /\ ledger_pc = "idle"
    /\ ledger_locals = None
    /\ ops = <<>>
    /\ ledger_result = None

IdleUtil ==
    /\ util_item = None
    /\ util_self = None
    /\ util_pc = "idle"
    /\ util_ops = <<>>
    /\ util_result = None

IdleDelete ==
    /\ delete_item = None
    /\ delete_tx = None
    /\ delete_self = None
    /\ delete_pc = "idle"
    /\ delete_calls = <<>>
    /\ delete_result = None

IdleLogin ==
    /\ login_server = None
    /\ login_command = "none"
    /\ login_pc = "idle"
    /\ login_locals = NoLoginLocals
    /\ login_calls = <<>>
    /\ login_keychain = {}
    /\ login_result = None

IdleKeygen ==
    /\ keygen_self = None
    /\ keygen_config = None
    /\ keygen_tx = None
    /\ keygen_pc = "idle"
    /\ keygen_key = None
    /\ keygen_keychain = {}
    /\ keygen_calls = <<>>
    /\ keygen_result = None

IdleChain ==
    /\ chain = <<>>
    /\ chain_next = 0
    /\ chain_initial = None
    /\ chain_tx = None
    /\ chain_reads = <<>>
    /\ chain_pc = "idle"
    /\ chain_result = None

IdleText ==
    /\ text_case = None
    /\ text_out = None

(***************************************************************************)
(* Specifications                                                          *)
(***************************************************************************)
InitSpecSubmit == InitSubmit /\ IdleLedger /\ IdleUtil /\ IdleDelete /\ IdleLogin /\ IdleKeygen /\ IdleChain /\ IdleText

SpecSubmit == InitSpecSubmit /\ [][NextSubmit]_vars

\* one command runs: the Ledger signer of a pipeline, or the signing utility
\* the loop of Transaction::process keeps running and every call is answered
SpecSubmitLive ==
    InitSpecSubmit /\ [][NextSubmitLive]_vars /\ WF_vars(NextSubmitLive)

InitSpecLedger ==
    /\ IdleSubmit /\ IdleDelete /\ IdleLogin /\ IdleKeygen /\ IdleChain /\ IdleText
    /\ \/ InitLedger /\ IdleUtil
       \/ IdleLedger /\ InitUtil

NextLedgerOrUtil == NextLedger \/ NextUtil

SpecLedger == InitSpecLedger /\ [][NextLedgerOrUtil]_vars

InitSpecChain == IdleSubmit /\ IdleLedger /\ IdleUtil /\ IdleDelete /\ IdleLogin /\ IdleKeygen /\ InitChain /\ IdleText

SpecChain == InitSpecChain /\ [][NextChain]_vars

InitSpecPipeline == IdleSubmit /\ InitPipeline /\ IdleUtil /\ IdleDelete /\ IdleLogin /\ IdleKeygen /\ IdleText

SpecPipeline == InitSpecPipeline /\ [][NextPipeline]_vars

InitSpecDelete ==
    IdleSubmit /\ IdleLedger /\ IdleUtil /\ InitDelete /\ IdleLogin /\ IdleKeygen /\ IdleChain /\ IdleText

InitSpecLogin ==
    /\ IdleSubmit /\ IdleLedger /\ IdleUtil /\ IdleDelete /\ InitLogin /\ IdleKeygen
    /\ IdleChain /\ IdleText

InitSpecKeygen ==
    /\ IdleSubmit /\ IdleLedger /\ IdleUtil /\ IdleDelete /\ IdleLogin /\ InitKeygen
    /\ IdleChain /\ IdleText

SpecKeygen == InitSpecKeygen /\ [][NextKeygen]_vars

SpecLogin == InitSpecLogin /\ [][NextLogin]_vars

SpecDelete == InitSpecDelete /\ [][NextDelete]_vars

InitSpecText == IdleSubmit /\ IdleLedger /\ IdleUtil /\ IdleDelete /\ IdleLogin /\ IdleKeygen /\ IdleChain /\ InitText

SpecText == InitSpecText /\ [][NextText]_vars

(***************************************************************************)
(* Claims about Transaction::process                                       *)
(***************************************************************************)
\* the error data the endpoint uses for a timeout: a JSON string containing "Timeout"
TimeoutClass == {Some(JsonString(T_Timeout)), Some(JsonString(T_TimeoutError))}

\* the answers so far are n timeout errors followed by one success
TimeoutsThenSuccess(n) ==
    /\ Len(transaction_info_results) = n + 1
    /\ \A i \in 1..n : /\ IsErr(transaction_info_results[i])
                       /\ transaction_info_results[i].error \in TimeoutClass
    /\ IsOk(transaction_info_results[n + 1])

\* C1: when broadcast_tx_commit answers with a timeout error N times and then
\* succeeds, process has returned Ok, the value the loop broke with is that success
\* response, exactly N+1 broadcast calls were issued, and every call carried
\* self.transaction.
C1_RetryUntilSuccess ==
    \A n \in 0..(MaxBroadcasts + 1) :
        TimeoutsThenSuccess(n) =>
            /\ submit_pc = "returned"
            /\ submit_result = Some(Ok("unit"))
            /\ transaction_info = Some(transaction_info_results[n + 1].value)
            /\ Len(broadcast_calls) = n + 1
            /\ \A i \in 1..(n + 1) : broadcast_calls[i] = transaction

C1_Witness ==
    /\ TimeoutsThenSuccess(2)
    /\ submit_pc = "returned"
    /\ Len(broadcast_calls) = 3

\* C2: an error answer is followed by another broadcast attempt if and only if it
\* is timeout-class; any other error (no data, non-string data, a string without
\* "Timeout") ends process at once with Err and no further call.
C2_RetryIffTimeout ==
    \A i \in 1..Len(transaction_info_results) :
        LET r == transaction_info_results[i] IN
        IsErr(r) =>
            IF r.error \in TimeoutClass
            THEN /\ Len(broadcast_calls) > i \/ submit_pc = "loop"
                 /\ i = Len(transaction_info_results) => submit_result = None
            ELSE /\ i = Len(transaction_info_results)
                 /\ submit_pc = "returned"
                 /\ submit_result = Some(Err(r.error))
                 /\ Len(broadcast_calls) = i

C2_Witness ==
    /\ Len(transaction_info_results) = 3
    /\ transaction_info_results[1] = Err(Some(JsonString(T_TimeoutError)))
    /\ transaction_info_results[3] = Err(Some(JsonNumber))
    /\ submit_pc = "returned"

(***************************************************************************)
(* Claims about SignLedger::from and SignLedger::process                   *)
(***************************************************************************)
\* positions in the log of the operations of one kind
OpsAt(name, phase) == {i \in 1..Len(ops) : ops[i].op = name /\ ops[i].phase = phase}
\* positions of the prompts for one field
PromptsFor(field) == OpsAt("prompt", field)
SignRequests == OpsAt("sign_transaction", "request")
QueryRequests == OpsAt("view_access_key", "request")
QueryResponses == OpsAt("view_access_key", "response")
SubmitCalls == {i \in 1..Len(ops) : ops[i].op \in {"process_offline", "process_online"}}

\* the transaction a sign request carries (Transaction::try_from_slice of the payload)
SentTransaction(i) ==
    LET payload == ops[i].data.payload
    IN [signer_id |-> payload[1], public_key |-> payload[2], nonce |-> payload[3],
        receiver_id |-> payload[4], block_hash |-> payload[5], actions |-> payload[6]]

IsAccessKeyResponse(i) == IsOk(ops[i].data) /\ ops[i].data.value.kind = "AccessKey"

\* C3: in Network mode, for every nonce n the view-access-key query returns, the
\* transaction sent to the device for signing has nonce n + 1 and the block hash of
\* that same response.
C3_NonceIsQueriedPlusOne ==
    IsSome(connection_config) =>
        \A s \in SignRequests : \A q \in QueryResponses :
            IsAccessKeyResponse(q) =>
                /\ SentTransaction(s).nonce = DecInc(ops[q].data.value.nonce)
                /\ SentTransaction(s).block_hash = ops[q].data.value.block_hash

\* C4: in Offline mode no network query is ever issued; in Network mode a signing
\* request is preceded by exactly one view-access-key query whose answer arrived
\* before the request was sent.
C4_QueryBeforeSigning ==
    /\ connection_config = None => QueryRequests = {} /\ QueryResponses = {}
    /\ IsSome(connection_config) =>
          /\ Cardinality(QueryRequests) <= 1
          /\ \A s \in SignRequests :
                /\ Cardinality(QueryRequests) = 1
                /\ Cardinality(QueryResponses) = 1
                /\ \A q \in QueryRequests : \A r \in QueryResponses : q < r /\ r < s

C4_Witness ==
    /\ connection_config = None
    /\ SignRequests # {}
    /\ prepopulated_unsigned_transaction.actions = <<A_Deploy, A_AddKey>>
    /\ ledger_pc = "returned"

\* C8: in Network mode the get-public-key round trip has completed before the
\* view-access-key query is issued, the query asks for the key the device returned,
\* and the transaction sent for signing carries that key.
C8_PublicKeyBeforeQuery ==
    IsSome(connection_config) =>
        /\ \A q \in QueryRequests :
              \E g \in OpsAt("get_public_key", "response") :
                  /\ g < q
                  /\ IsOk(ops[g].data)
                  /\ ops[q].data.public_key = ops[g].data.value
                  /\ ops[q].data.account_id = prepopulated_unsigned_transaction.signer_id
        /\ \A s \in SignRequests :
              \E g \in OpsAt("get_public_key", "response") :
                  /\ g < s
                  /\ IsOk(ops[g].data)
                  /\ SentTransaction(s).public_key = ops[g].data.value

C8_Witness ==
    /\ IsSome(connection_config)
    /\ QueryRequests # {}
    /\ SignRequests # {}
    /\ \E g \in OpsAt("get_public_key", "response") :
          ops[g].data = Ok("ed25519:ledgerB")

\* C9: in both branches the transaction sent for signing has the signer_id,
\* receiver_id and actions of the prepopulated transaction; only public_key, nonce
\* and block_hash may differ.
C9_SigningKeepsSkeleton ==
    \A s \in SignRequests :
        /\ SentTransaction(s).signer_id = prepopulated_unsigned_transaction.signer_id
        /\ SentTransaction(s).receiver_id = prepopulated_unsigned_transaction.receiver_id
        /\ SentTransaction(s).actions = prepopulated_unsigned_transaction.actions
        /\ ledger_locals.unsigned_transaction = Some(SentTransaction(s))

C9_Witness ==
    /\ SignRequests # {}
    /\ IsSome(connection_config)
    /\ prepopulated_unsigned_transaction.actions = <<A_AddKey, A_Deploy>>
    /\ \E s \in SignRequests :
          /\ SentTransaction(s).nonce # prepopulated_unsigned_transaction.nonce
          /\ SentTransaction(s).public_key # prepopulated_unsigned_transaction.public_key

\* C10: in Network mode, when the view-access-key query fails or answers with
\* something that is not an access key, process has returned an error, the query was
\* issued once, and no signing request and no submit step was ever performed.
C10_QueryFailureIsFatal ==
    \A r \in QueryResponses :
        ~IsAccessKeyResponse(r) =>
            /\ ledger_pc = "returned"
            /\ IsSome(ledger_result) /\ IsErr(ledger_result.value)
            /\ Cardinality(QueryRequests) = 1
            /\ SignRequests = {}
            /\ SubmitCalls = {}

C10_Witness ==
    /\ \E r \in QueryResponses : IsOk(ops[r].data) /\ ~IsAccessKeyResponse(r)
    /\ ledger_pc = "returned"

\* C26: the transaction is never changed after signing.  In both branches of
\* SignLedger::process and in SignTransactionWithLedger::process, the transaction
\* inside the signed transaction that is encoded, printed or handed to Submit is
\* field for field the transaction whose encoding was sent to the device, and the
\* signature is the one the device returned for it.
C26_NotMutatedAfterSigning ==
    /\ \A b \in SubmitCalls :
          /\ Cardinality(SignRequests) = 1
          /\ \A q \in SignRequests :
                /\ q + 1 \in OpsAt("sign_transaction", "response")
                /\ ops[b].data.serialize_to_base64.base64
                      = <<ops[q].data.payload, ops[q + 1].data.value>>
                /\ ops[b].op = "process_online" =>
                      /\ ops[b].data.signed_transaction.transaction = SentTransaction(q)
                      /\ ops[b].data.signed_transaction.signature = ops[q + 1].data.value
    /\ \A p \in 1..Len(util_ops) :
          util_ops[p].op = "println" =>
              /\ p = 3 + Cardinality({i \in 1..Len(util_ops) : util_ops[i].op = "prompt"})
              /\ util_ops[p - 2].op = "sign_transaction" /\ util_ops[p - 2].phase = "request"
              /\ util_ops[p].data.base64
                    = <<util_ops[p - 2].data.payload, util_ops[p - 1].data.value>>
              /\ util_ops[p - 2].data.payload = TryToVec(util_self.value.unsigned_transaction)

\* a Network-mode run that handed a signed transaction with a queried nonce to Submit
C26_Witness ==
    /\ SubmitCalls # {}
    /\ \E b \in SubmitCalls :
          /\ ops[b].op = "process_online"
          /\ ops[b].data.signed_transaction.transaction.nonce = <<6>>
          /\ ops[b].data.signed_transaction.transaction.actions = <<A_Deploy>>

\* C27: the submit step follows the mode.  In Offline mode SignLedger::process ends
\* in Submit::process_offline with the base64-encoded signed transaction, whether the
\* submit choice was supplied or chosen at the prompt, and never in process_online; in
\* Network mode it ends in process_online.  Submit is invoked only after, and whenever,
\* the signing succeeded.
C27_SubmitFollowsMode ==
    /\ \A b \in SubmitCalls :
          /\ connection_config = None =>
                /\ ops[b].op = "process_offline"
                /\ ops[b].data
                      = [serialize_to_base64 |-> ledger_locals.serialize_to_base64.value]
          /\ IsSome(connection_config) =>
                /\ ops[b].op = "process_online"
                /\ ops[b].data.network_connection_config = connection_config.value
                /\ ops[b].data.signed_transaction = ledger_locals.signed_transaction.value
                /\ ops[b].data.serialize_to_base64 = ledger_locals.serialize_to_base64.value
          /\ IF IsSome(sign_ledger.value.submit)
             THEN /\ ops[b].phase = sign_ledger.value.submit.value
                  /\ PromptsFor("submit") = {}
             ELSE /\ PromptsFor("submit") = {b - 1}
                  /\ ops[b].phase = ops[b - 1].data
          /\ \E r \in OpsAt("sign_transaction", "response") : r < b /\ IsOk(ops[r].data)
    /\ Cardinality(SubmitCalls) <= 1
    /\ \A r \in OpsAt("sign_transaction", "response") :
          IsOk(ops[r].data) => SubmitCalls # {}

\* an Offline run whose submit choice was made at the prompt
C27_Witness ==
    /\ connection_config = None
    /\ sign_ledger # None
    /\ sign_ledger.value.submit = None
    /\ \E b \in SubmitCalls : ops[b].op = "process_offline" /\ ops[b].phase = "Send"

\* the value a field got at SignLedger::from in Offline mode: the one the command line
\* gave, or else the one entered at its prompt
ResolvedAtFrom(field) ==
    IF IsSome(item[field]) THEN item[field].value
    ELSE ops[CHOOSE i \in PromptsFor(field) : TRUE].data

\* C28: the source of nonce and block hash is fixed by the mode and is never a
\* defaulted value.  In Offline mode the SignLedger holds both as Some, and the
\* transaction sent for signing carries the values given on the command line or at the
\* prompt of SignLedger::from; a SignLedger built in Network mode holds None for both,
\* and the transaction sent for signing takes both from the answer to the query.
C28_NonceSourceFixedByMode ==
    IsSome(sign_ledger) =>
        /\ connection_config = None =>
              /\ IsSome(sign_ledger.value.nonce)
              /\ IsSome(sign_ledger.value.block_hash)
              /\ IsSome(item.nonce) \/ Cardinality(PromptsFor("nonce")) = 1
              /\ IsSome(item.block_hash) \/ Cardinality(PromptsFor("block_hash")) = 1
              /\ \A s \in SignRequests :
                    /\ SentTransaction(s).nonce = ResolvedAtFrom("nonce")
                    /\ SentTransaction(s).block_hash = ResolvedAtFrom("block_hash")
        /\ IsSome(connection_config) =>
              /\ sign_ledger.value.nonce = None
              /\ sign_ledger.value.block_hash = None
              /\ \A s \in SignRequests :
                    \E q \in QueryResponses :
                        /\ q < s
                        /\ IsAccessKeyResponse(q)
                        /\ SentTransaction(s).block_hash = ops[q].data.value.block_hash
                        /\ \E sum \in NextNonce(ops[q].data.value.nonce) :
                              sum.kind # "panic" /\ SentTransaction(s).nonce = sum.value

\* an Offline run that signed with the nonce and block hash entered at the prompts
C28_Witness ==
    /\ IsSome(sign_ledger)
    /\ connection_config = None
    /\ item.nonce = None
    /\ item.block_hash = None
    /\ \E s \in SignRequests :
          /\ SentTransaction(s).nonce = <<5>>
          /\ SentTransaction(s).block_hash = "hash_Q"

(***************************************************************************)
(* Claims about the action chain                                           *)
(***************************************************************************)
\* the file contents read by the node at position i
CodeReadAt(i) ==
    LET r == CHOOSE r \in 1..Len(chain_reads) : chain_reads[r].at = i
    IN chain_reads[r].result.value

\* the action a is the one node n of the chain stands for
IsActionOf(a, n, i) ==
    IF n.node = "ContractFile"
    THEN /\ a.kind = "DeployContract"
         /\ a.code = CodeReadAt(i)
    ELSE /\ a.kind = "AddKey"
         /\ a.public_key = n.public_key
         /\ a.access_key.nonce = n.nonce
         /\ a.access_key.permission.kind = "FunctionCall"
         /\ a.access_key.permission.allowance = n.permission.allowance
         /\ a.access_key.permission.receiver_id = n.permission.receiver_id
         /\ a.access_key.permission.method_names = n.permission.method_names

\* C5: the action list handed to the terminal (skip/sign) node is the initial list
\* followed by one action per chain node, in chain order; nothing is reordered,
\* dropped or rewritten.
C5_ActionOrderPreserved ==
    chain_pc = "terminal" =>
        LET before == Len(chain_initial.actions)
        IN /\ Len(chain_tx.actions) = before + Len(chain)
           /\ \A j \in 1..before : chain_tx.actions[j] = chain_initial.actions[j]
           /\ \A i \in 1..Len(chain) :
                 IsActionOf(chain_tx.actions[before + i], chain[i], i)

C5_Witness ==
    /\ chain_pc = "terminal"
    /\ chain_initial.actions = <<>>
    /\ Len(chain) = 3
    /\ chain[1].node = "AddAccessKeyAction"
    /\ chain[2].node = "ContractFile"
    /\ chain[3].node = "AddAccessKeyAction"
    /\ chain[1] # chain[3]
    /\ Len(chain_tx.actions) = 3

\* C21: every chain node hands the next node a transaction with exactly one action
\* more than it received: after k nodes have passed control on, the list is k longer
\* than the initial one, and signer_id, receiver_id, public_key, nonce and block_hash
\* are those of the initial transaction.
C21_OneActionPerNode ==
    /\ Len(chain_tx.actions) = Len(chain_initial.actions) + (chain_next - 1)
    /\ chain_tx.signer_id = chain_initial.signer_id
    /\ chain_tx.receiver_id = chain_initial.receiver_id
    /\ chain_tx.public_key = chain_initial.public_key
    /\ chain_tx.nonce = chain_initial.nonce
    /\ chain_tx.block_hash = chain_initial.block_hash

\* a ContractFile node and a function-call node have both passed control on, starting
\* from a transaction that already held an action
C21_Witness ==
    /\ chain_next = 3
    /\ chain_initial.actions # <<>>
    /\ chain[1].node = "ContractFile"
    /\ chain[2].node = "AddAccessKeyAction"
    /\ Len(chain_tx.actions) = Len(chain_initial.actions) + 2

(***************************************************************************)
(* Claims about failures of the device                                     *)
(***************************************************************************)
\* positions of the failed answers of one device operation in a log
DeviceErrs(log, name) ==
    {i \in 1..Len(log) : log[i].op = name /\ log[i].phase = "response" /\ IsErr(log[i].data)}

\* positions of the requests of one device operation in a log
DeviceRequests(log, name) ==
    {i \in 1..Len(log) : log[i].op = name /\ log[i].phase = "request"}

\* C11: a failed device round trip is fatal and never retried.  When get_public_key
\* fails, SignLedger::from returns Err and builds no SignLedger; when sign_transaction
\* fails, SignLedger::process and SignTransactionWithLedger::process return Err after
\* that one signing request, and no signed transaction is built, printed or handed to
\* Submit.
C11_DeviceErrorIsFatal ==
    /\ \A e \in DeviceErrs(ops, "get_public_key") :
          /\ e = Len(ops)
          /\ Cardinality(DeviceRequests(ops, "get_public_key")) = 1
          /\ sign_ledger = None
          /\ ledger_pc = "returned" /\ IsErr(ledger_result.value)
          /\ SignRequests = {} /\ QueryRequests = {} /\ SubmitCalls = {}
    /\ \A e \in DeviceErrs(ops, "sign_transaction") :
          /\ e = Len(ops)
          /\ Cardinality(SignRequests) = 1
          /\ ledger_pc = "returned" /\ IsErr(ledger_result.value)
          /\ ledger_locals.signed_transaction = None
          /\ ledger_locals.serialize_to_base64 = None
          /\ SubmitCalls = {}
    /\ \A e \in DeviceErrs(util_ops, "sign_transaction") :
          /\ e = Len(util_ops)
          /\ Cardinality(DeviceRequests(util_ops, "sign_transaction")) = 1
          /\ util_pc = "returned" /\ IsErr(util_result.value)
          /\ \A i \in 1..Len(util_ops) : util_ops[i].op # "println"

C11_Witness ==
    /\ DeviceErrs(util_ops, "sign_transaction") # {}
    /\ util_item.unsigned_transaction = None
    /\ util_self.value.unsigned_transaction.actions = <<A_Deploy, A_AddKey>>
    /\ util_pc = "returned"

(***************************************************************************)
(* Claims about the resolution of fields                                   *)
(***************************************************************************)
\* C17: once SignLedger::from has built its value, every field the CliSignLedger
\* supplied (the HD path, --nonce, --block-hash, the submit choice) is resolved to the
\* supplied value, and no prompt was issued for it.
C17_SuppliedFieldWins ==
    IsSome(sign_ledger) =>
        /\ IsSome(item.seed_phrase_hd_path) =>
              /\ sign_ledger.value.seed_phrase_hd_path = item.seed_phrase_hd_path.value
              /\ PromptsFor("seed_phrase_hd_path") = {}
        /\ IsSome(item.nonce) =>
              /\ sign_ledger.value.nonce = item.nonce
              /\ PromptsFor("nonce") = {}
        /\ IsSome(item.block_hash) =>
              /\ sign_ledger.value.block_hash = item.block_hash
              /\ PromptsFor("block_hash") = {}
        /\ IsSome(item.submit) =>
              /\ sign_ledger.value.submit = item.submit
              /\ PromptsFor("submit") = {}

(***************************************************************************)
(* Claims about the propagation of errors                                  *)
(***************************************************************************)
\* C18: a fatal error met while resolving or processing the delete command comes back
\* as an Err value and never as a panic: when OperationMode::from answers Err inside
\* Action::from, DeleteAction::from returns that Err.
C18_ErrNeverBecomesPanic ==
    /\ IsSome(delete_result) => delete_result.value.tag \in {"Ok", "Err"}
    /\ \A i \in 1..Len(delete_calls) :
          ( /\ delete_calls[i].op = "OperationMode::from"
            /\ delete_calls[i].phase = "response"
            /\ IsErr(delete_calls[i].data) )
          => delete_result = Some(delete_calls[i].data)

\* an answer of broadcast_tx_commit that makes the loop continue
IsTimeoutAnswer(result) == IsErr(result) /\ IsTimeoutError(result.error)

\* the loop has ended exactly when an answer that is no timeout has arrived, and that
\* answer is the last one
ReturnsExactlyOnNonTimeout ==
    LET n == Len(transaction_info_results)
    IN /\ \A i \in 1..(n - 1) : IsTimeoutAnswer(transaction_info_results[i])
       /\ submit_pc = "returned"
            <=> (n > 0 /\ ~IsTimeoutAnswer(transaction_info_results[n]))
       /\ submit_pc = "returned" <=> IsSome(submit_result)

\* C20: Transaction::process retries without a bound; it ends as soon as, and only
\* when, the endpoint answers with a success or a non-timeout error; if the endpoint
\* eventually gives such an answer (it does so in the end whenever it is asked again
\* and again), the call eventually returns.
C20_BroadcastTerminates ==
    /\ []ReturnsExactlyOnNonTimeout
    /\ SF_vars(NonTimeoutResponse) => <>(submit_pc = "returned")

\* a call that went on retrying past MaxBroadcasts timeouts and then returned
C20_Witness ==
    /\ submit_pc = "returned"
    /\ Len(broadcast_calls) = MaxBroadcasts
    /\ Len(transaction_info_results) = MaxBroadcasts + 1

C25_FailedNodeLeavesTransaction ==
    \A i \in 1..Len(chain_reads) :
        IsErr(chain_reads[i].result) =>
            /\ i = Len(chain_reads)
            /\ chain_pc = "returned"
            /\ chain_result = Some(Err("Failed to open file"))
            /\ chain_next = chain_reads[i].at
            /\ Len(chain_tx.actions) = Len(chain_initial.actions) + (chain_next - 1)
            /\ \A j \in 1..Len(chain_initial.actions) :
                  chain_tx.actions[j] = chain_initial.actions[j]
            /\ \A k \in 1..(chain_next - 1) :
                  IsActionOf(chain_tx.actions[Len(chain_initial.actions) + k], chain[k], k)
            /\ (QueryRequests \cup SignRequests \cup SubmitCalls) = {}
            /\ ledger_pc = "built"
            /\ ledger_result = None

\* the second node of a chain is a ContractFile whose file cannot be read
C25_Witness ==
    /\ chain_pc = "returned"
    /\ Len(chain) = 3
    /\ chain_next = 2
    /\ chain[1].node = "AddAccessKeyAction"
    /\ Len(chain_reads) = 1
    /\ IsErr(chain_reads[1].result)
    /\ Len(chain_tx.actions) = 1

\* C19: in a pipeline run a local failure of a chain node (here: the contract file
\* cannot be read) is detected before any hardware-device round trip or network
\* query of the run has been attempted.
C19_LocalFailureBeforeDevice ==
    \A i \in 1..Len(chain_reads) :
        IsErr(chain_reads[i].result)
        => \A j \in 1..Len(ops) :
              ops[j].op \notin {"get_public_key", "view_access_key", "sign_transaction"}

(***************************************************************************)
(* Claims about login                                                      *)
(***************************************************************************)
\* C22: converting a structured value to its Cli form is total and pure: the
\* conversion of a Server to CliCustomServer returns a value for every Server,
\* makes no network call and does not panic.
C22_ServerIntoCliTotalAndPure ==
    login_command = "into_cli" =>
        /\ \A i \in 1..Len(login_calls) : login_calls[i].op # "status"
        /\ IsSome(login_result) => IsOk(login_result.value)

\* positions in the login log of the successful view-access-key answers to the query
\* for the entered account id and the generated public key
VerifiedAt ==
    {i \in 2..Len(login_calls) :
        /\ login_calls[i].op = "view_access_key"
        /\ login_calls[i].phase = "response"
        /\ IsOk(login_calls[i].data)
        /\ login_calls[i - 1].op = "view_access_key"
        /\ login_calls[i - 1].phase = "request"
        /\ login_calls[i - 1].data.account_id = login_locals.account_id.value
        /\ login_calls[i - 1].data.public_key
               = login_locals.key_pair_properties.value.public_key_str}

\* C29: Server::process writes the generated key to the keychain only after the
\* view-access-key query for the entered account id and the generated public key
\* succeeded; when the query fails, process returns Err and no key is saved.
C29_SaveOnlyAfterVerification ==
    login_command = "process" =>
        /\ \A i \in 1..Len(login_calls) :
              login_calls[i].op = "save_access_key_to_keychain"
              => \E v \in VerifiedAt : v < i
        /\ login_keychain # {} =>
              /\ VerifiedAt # {}
              /\ login_keychain = {KeychainEntry}
        /\ \A i \in 1..Len(login_calls) :
              ( /\ login_calls[i].op = "view_access_key"
                /\ login_calls[i].phase = "response"
                /\ IsErr(login_calls[i].data) )
              => /\ IsSome(login_result) /\ IsErr(login_result.value)
                 /\ login_keychain = {}
                 /\ i = Len(login_calls)

\* a login that verified the account and saved the key
C29_Witness ==
    /\ login_command = "process"
    /\ login_result = Some(Ok(None))
    /\ login_keychain # {}
    /\ login_locals.account_id = Some("bob.near")

\* positions in the keygen log of the calls of the permission's process and of the
\* next node
KeygenCalls(name) == {i \in 1..Len(keygen_calls) : keygen_calls[i].op = name}

\* C30: GenerateKeypair::process saves the generated key pair to the keychain before
\* the AddKey action is appended.  When the save fails it returns Err, no action is
\* appended and no next node is processed; otherwise the appended AddKey action carries
\* the public key of the saved key pair and access-key nonce 0, for the full-access and
\* for the function-call permission alike.
C30_SaveBeforeAddKey ==
    /\ \A i \in KeygenCalls("save_access_key_to_keychain") :
          ( keygen_calls[i].phase = "response" /\ IsErr(keygen_calls[i].data) )
          => /\ keygen_pc = "returned"
             /\ IsSome(keygen_result) /\ IsErr(keygen_result.value)
             /\ KeygenCalls("permission.process") = {}
             /\ KeygenCalls("next_action.process") = {}
             /\ keygen_keychain = {}
    /\ \A n \in KeygenCalls("next_action.process") :
          LET tx == keygen_calls[n].data
              before == Len(keygen_tx.actions)
              added == tx.actions[before + 1]
          IN /\ \E i \in KeygenCalls("save_access_key_to_keychain") :
                   i < n /\ keygen_calls[i].phase = "response" /\ IsOk(keygen_calls[i].data)
             /\ keygen_keychain = {KeygenKeychainEntry(keygen_key.value)}
             /\ Len(tx.actions) = before + 1
             /\ \A j \in 1..before : tx.actions[j] = keygen_tx.actions[j]
             /\ added.kind = "AddKey"
             /\ added.public_key = keygen_key.value.public_key_str
             /\ added.access_key.nonce = <<0>>
             /\ added.access_key.permission.kind =
                   (IF keygen_self.permission.kind = "GrantFullAccess"
                    THEN "FullAccess" ELSE "FunctionCall")

\* a full-access key was generated, saved and appended after two earlier actions
C30_Witness ==
    /\ keygen_pc = "returned"
    /\ keygen_self # None
    /\ keygen_self.permission.kind = "GrantFullAccess"
    /\ KeygenCalls("next_action.process") # {}
    /\ keygen_tx.actions = <<A_Deploy, A_AddKey>>
    /\ keygen_key = Some([public_key_str |-> "ed25519:gen_2",
                          secret_keypair_str |-> "ed25519:secret_2"])

(***************************************************************************)
(* Claims about the token form                                             *)
(***************************************************************************)
FullyPopulated(cli) == \A f \in DOMAIN cli : IsSome(cli[f])

\* C6: for a fully populated CliSignLedger or CliAddAccessKeyAction, the tokens
\* to_cli_args emits parse back to the same value, so that every populated field is
\* present in the tokens and resolving needs no prompt.
C6_TokenRoundTrip ==
    /\ IsSome(text_out)
    /\ text_case.type \in {"CliSignLedger", "CliAddAccessKeyAction"}
    /\ FullyPopulated(text_case.cli)
    => text_out.value.parsed = Ok(text_case.cli)

\* C7: for every allowance a, the text to_cli_args emits after --allowance is
\* accepted by NearBalance::from_str and parses back to a.
C7_AllowanceTokenParsesBack ==
    /\ IsSome(text_out)
    /\ text_case.type = "CliFunctionCallType"
    /\ IsSome(text_case.cli.allowance)
    => /\ IsOk(text_out.value.parsed)
       /\ text_out.value.parsed.value.allowance = text_case.cli.allowance

\* C23: converting a FunctionCallType to CliFunctionCallType and resolving it back
\* with FunctionCallType::from gives a value with the same allowance (None stays
\* None), the same method names element for element, the same receiver_id and the
\* same next_action.
C23_StructRoundTrip ==
    /\ IsSome(text_out)
    /\ text_case.type = "FunctionCallType"
    => /\ IsOk(text_out.value.resolved)
       /\ text_out.value.resolved.value.allowance = text_case.value.allowance
       /\ text_out.value.resolved.value.method_names = text_case.value.method_names
       /\ text_out.value.resolved.value.receiver_id = text_case.value.receiver_id
       /\ text_out.value.resolved.value.next_action = text_case.value.next_action

\* C12: on either input path of the method names (the --method-names value, the
\* prompt), a text containing a quote character gives the empty list, the empty text
\* gives the empty list, and any other text gives the names between its commas.
C12_MethodNamesInput ==
    /\ IsSome(text_out)
    /\ text_case.type = "MethodNames"
    /\ "declined" \notin DOMAIN text_out.value
    => text_out.value.method_names =
           IF Contains(text_case.input, <<"\"">>) \/ text_case.input = <<>> THEN <<>>
           ELSE SplitChar(text_case.input, ",")

(***************************************************************************)
(* Claims about the parsing of amounts                                     *)
(***************************************************************************)
\* a text of decimal digits, one at least
IsDigitText(t) == t # <<>> /\ \A i \in 1..Len(t) : IsDigitChar(t[i])

\* the number a text of decimal digits denotes
DigitTextValue(t) == DecStrip([i \in 1..Len(t) |-> CharDigit(t[i])])

\* int * 10^scale + fract * 10^(scale - L), L the length of the fractional part
ScaledValue(c, scale) ==
    LET whole == DecMulPow10(DigitTextValue(c.int), scale)
    IN IF IsSome(c.fract)
       THEN DecAdd(whole, DecMulPow10(DigitTextValue(c.fract.value),
                                      scale - Len(c.fract.value)))
       ELSE whole

\* a number of the form I or I.F with at most `scale` fractional digits
IsDecimalNumber(c, scale) ==
    /\ IsDigitText(c.int)
    /\ IsSome(c.fract) => IsDigitText(c.fract.value) /\ Len(c.fract.value) <= scale

\* C13: a text I or I.F (F of at most 24 digits) followed by N or NEAR in any case
\* parses to I * 10^24 + F * 10^(24 - L) yoctoNEAR whenever that fits in u128; an
\* integer I followed by YN, YNEAR, YOCTON or YOCTONEAR parses to I yoctoNEAR.
C13_NearBalanceValue ==
    /\ IsSome(text_out)
    /\ text_case.type = "NearBalance"
    => LET c == text_case.number
       IN /\ ( /\ c.unit \in NearUnits
               /\ IsDecimalNumber(c, ONE_NEAR_DIGITS)
               /\ DecLeq(ScaledValue(c, ONE_NEAR_DIGITS), U128_MAX) )
             => text_out.value.parsed = Ok(ScaledValue(c, ONE_NEAR_DIGITS))
          /\ ( /\ c.unit \in YoctoUnits
               /\ IsDigitText(c.int) /\ c.fract = None
               /\ DecLeq(DigitTextValue(c.int), U128_MAX) )
             => text_out.value.parsed = Ok(DigitTextValue(c.int))

C13_Witness ==
    /\ IsSome(text_out)
    /\ text_case.type = "NearBalance"
    /\ text_case.number.unit = <<"n", "e", "a", "r">>
    /\ text_case.number.fract = Some(<<"0", "5", "5">>)
    /\ text_case.number.int = <<"1", "0">>
    /\ text_out.value.parsed = Ok(DecMulPow10(<<1, 0, 0, 5, 5>>, 21))

GigaGasValue(c) == DecDivPow10(ScaledValue(c, TERA_GAS_DIGITS), GIGA_DIVISOR_DIGITS)

IsWholeGigaGas(c) ==
    DecModPow10(ScaledValue(c, TERA_GAS_DIGITS), GIGA_DIVISOR_DIGITS) = <<0>>

\* C15: a number x of at most 12 fractional digits followed by T, TGAS or TERAGAS
\* parses to x * 10^12 gas, and followed by GGAS or GIGAGAS to x * 10^9 gas, for every
\* x whose gas amount fits in u64.
C15_NearGasValue ==
    /\ IsSome(text_out)
    /\ text_case.type = "NearGas"
    => LET c == text_case.number
       IN /\ ( /\ c.unit \in TeraUnits
               /\ IsDecimalNumber(c, TERA_GAS_DIGITS)
               /\ DecLeq(ScaledValue(c, TERA_GAS_DIGITS), U64_MAX) )
             => text_out.value.parsed = Ok(ScaledValue(c, TERA_GAS_DIGITS))
          /\ ( /\ c.unit \in GigaUnits
               /\ IsDecimalNumber(c, TERA_GAS_DIGITS)
               /\ IsWholeGigaGas(c)
               /\ DecLeq(GigaGasValue(c), U64_MAX) )
             => text_out.value.parsed = Ok(GigaGasValue(c))

\* C16: NearGas::from_str gives Err when the fractional part has more than 12 digits,
\* when the unit is missing or unknown, when the integer part is empty or negative,
\* and when the gas amount is beyond u64.
C16_NearGasErrors ==
    /\ IsSome(text_out)
    /\ text_case.type = "NearGas"
    => LET c == text_case.number
       IN ( \/ IsSome(c.fract) /\ Len(c.fract.value) > TERA_GAS_DIGITS
            \/ c.unit \in OtherGasUnits
            \/ ~IsDigitText(c.int)
            \/ /\ c.unit \in TeraUnits /\ IsDecimalNumber(c, TERA_GAS_DIGITS)
               /\ ~DecLeq(ScaledValue(c, TERA_GAS_DIGITS), U64_MAX)
            \/ /\ c.unit \in GigaUnits /\ IsDecimalNumber(c, TERA_GAS_DIGITS)
               /\ ~DecLeq(GigaGasValue(c), U64_MAX) )
          => IsErr(text_out.value.parsed)

C16_Witness ==
    /\ IsSome(text_out)
    /\ text_case.type = "NearGas"
    /\ text_case.number.unit = <<"t", "g", "a", "s">>
    /\ IsSome(text_case.number.fract)
    /\ IsDecimalNumber(text_case.number, TERA_GAS_DIGITS)
    /\ DigitTextValue(text_case.number.int) = DecDivPow10(U64_MAX, TERA_GAS_DIGITS)
    /\ ScaledValue(text_case.number, TERA_GAS_DIGITS) = DecInc(U64_MAX)
    /\ text_out.value.parsed = Err("Near Gas: underflow or overflow happens")

====
